---- MODULE Spec2Model ----
(***************************************************************************)
(* A model of calibre's fuzzy matcher, src/src/calibre/utils/matcher.py:   *)
(* the scoring algorithm (calc_score_for_char, process_item, PyScorer),    *)
(* the partitioner (split), the process-wide worker pool (Worker, wlock,   *)
(* workers) and the Matcher (construction, query call, ranking).           *)
(*                                                                         *)
(* Strings are sequences of characters, a character is a one-token string. *)
(* Offsets into a haystack (hidx, pos, last_idx, positions) are 0-based as *)
(* in the Python code; h[k + 1] is Python's haystack[k].                   *)
(* Scores are Python floats in the code; here they are exact rationals     *)
(* <<numerator, denominator>> in lowest terms, so that equal scores are    *)
(* equal values.                                                           *)
(***************************************************************************)
EXTENDS Integers, Sequences, FiniteSets, TLC

VARIABLES
    \* ---- one run of process_item (specification SpecScore) ----
    haystack,         \* the candidate string being scored
    needle,           \* the query
    stack,            \* process_item's work stack, top = last element
    memory,           \* ctx.memory: key <<hidx, nidx, last_idx>> -> (score, positions)
    final_score,      \* process_item's final_score
    final_positions,  \* process_item's final_positions
    pc_score,         \* "off" | "run" | "done"
    \* ---- the worker pool and the Matchers (specification Spec) ----
    workers,          \* the module-level list: one record per Worker thread
    requests,         \* the request queue shared by all workers
    results,          \* the result queue shared by all workers
    wlock,            \* the module-level Lock: "free" or the thread holding it
    matchers,         \* the Matcher objects constructed so far
    pc,               \* per calling thread: "idle" | "put" | "collect"
    call,             \* per calling thread: the locals of its running query call
    ret,              \* how the query call that ended last ended
    ncalls,           \* number of query calls started (stamps jobs with their call)
    items_arg,        \* per Matcher: the items argument it was constructed from
    signals_sent,     \* number of atexit callbacks of line 42 that have run
    cpu_count,        \* what cpu_count() returns in this process
    \* ---- one run of Matcher.__init__ (specification SpecInit) ----
    ctor_pc,          \* "off" | "lock" | "items" | "split" | "maps" | "scorers" | "done" | "raised"
    ctor_args,        \* the arguments: items, level1, level2, level3, scorer
    extension_loads,  \* whether calibre_extensions.matcher can be imported
    self,             \* the Matcher object under construction
    split_tasks,      \* split's tasks
    split_delta,      \* split's delta
    split_count,      \* split's count
    split_ans,        \* split's ans
    ctor_exc,         \* the exception Matcher.__init__ raised, "" when none
    ctor_runs,        \* number of runs of Matcher.__init__ begun in this process
    accel_attempts,   \* number of runs of CScorer.__init__ (line 265) so far
    \* ---- one call of calc_score_for_char (specification SpecChar) ----
    char_ctx,         \* the ctx argument: level sets and max_score_per_char
    char_prev,        \* the prev argument
    char_current,     \* the current argument
    char_distance,    \* the distance argument
    char_score,       \* the value returned
    pc_char,          \* "off" | "call" | "done"
    \* ---- one run of lines 140-145 of Matcher.__call__ (specification SpecRank) ----
    rank_items,       \* self.items
    rank_table,       \* the merged table: index -> (score, positions)
    rank_limit,       \* the limit argument
    rank_value,       \* the mapping returned
    pc_rank,          \* "off" | "call" | "done"
    \* ---- one PyScorer object and its generators (specification SpecGen) ----
    gen_items,        \* self.items: the scorer's partition
    gen_needle,       \* the query of the generator being iterated
    gen_done,         \* number of candidates the generator has yielded a pair for
    gen_memory,       \* self.memory
    gen_max,          \* self.max_score_per_char
    gen_vals,         \* the pairs yielded so far
    gen_calls,        \* number of generators created from the scorer
    pc_gen            \* "off" | "run" | "done" | "raised"

score_vars == <<haystack, needle, stack, memory, final_score, final_positions, pc_score>>

pool_vars ==
    <<workers, requests, results, wlock, matchers, pc, call, ret, ncalls, items_arg,
      signals_sent>>

ctor_vars ==
    <<ctor_pc, ctor_args, extension_loads, self, split_tasks, split_delta, split_count,
      split_ans, ctor_exc, ctor_runs, accel_attempts>>

char_vars == <<char_ctx, char_prev, char_current, char_distance, char_score, pc_char>>

rank_vars == <<rank_items, rank_table, rank_limit, rank_value, pc_rank>>

gen_vars ==
    <<gen_items, gen_needle, gen_done, gen_memory, gen_max, gen_vals, gen_calls, pc_gen>>

vars == <<score_vars, pool_vars, cpu_count, ctor_vars, char_vars, rank_vars, gen_vars>>

(***************************************************************************)
(* Rational arithmetic for the scores.                                     *)
(***************************************************************************)
RECURSIVE Gcd(_, _)
Gcd(a, b) == IF b = 0 THEN a ELSE Gcd(b, a % b)

Lcm(a, b) == (a \div Gcd(a, b)) * b

Rat(n, d) == LET g == Gcd(n, d) IN IF n = 0 THEN <<0, 1>> ELSE <<n \div g, d \div g>>

Zero == <<0, 1>>

RAdd(x, y) == LET l == Lcm(x[2], y[2]) IN Rat(x[1] * (l \div x[2]) + y[1] * (l \div y[2]), l)

RMul(x, y) ==
    LET g1 == Gcd(x[1], y[2])
        g2 == Gcd(y[1], x[2])
    IN  IF x[1] = 0 \/ y[1] = 0 THEN Zero
        ELSE <<(x[1] \div g1) * (y[1] \div g2), (x[2] \div g2) * (y[2] \div g1)>>

\* x < y
RLess(x, y) == LET l == Lcm(x[2], y[2]) IN x[1] * (l \div x[2]) < y[1] * (l \div y[2])

(***************************************************************************)
(* Characters.  calibre.utils.icu (lower, upper, primary_find) is not part *)
(* of the sources at hand; the three operators below follow section 4.1 of *)
(* the specification: primary-strength comparison ignores case and accents.*)
(* The token "e'" stands for e with an acute accent, "E'" for its capital. *)
(***************************************************************************)
LowerLetters == <<"a", "b", "e", "f", "g", "h", "i", "l", "m", "n", "o", "t", "w", "x", "e'">>
UpperLetters == <<"A", "B", "E", "F", "G", "H", "I", "L", "M", "N", "O", "T", "W", "X", "E'">>

icu_lower(c) ==
    IF \E k \in DOMAIN UpperLetters : UpperLetters[k] = c
    THEN LowerLetters[CHOOSE k \in DOMAIN UpperLetters : UpperLetters[k] = c]
    ELSE c

icu_upper(c) ==
    IF \E k \in DOMAIN LowerLetters : LowerLetters[k] = c
    THEN UpperLetters[CHOOSE k \in DOMAIN LowerLetters : LowerLetters[k] = c]
    ELSE c

\* The primary-strength collation key of a character: case and accent removed.
PrimaryKey(c) == LET l == icu_lower(c) IN IF l = "e'" THEN "e" ELSE l

RECURSIVE FindFrom(_, _, _)
FindFrom(n, h, k) ==
    IF k >= Len(h) THEN -1
    ELSE IF PrimaryKey(h[k + 1]) = PrimaryKey(n) THEN k
    ELSE FindFrom(n, h, k + 1)

\* primary_find(n, haystack[hidx:])[0]: the offset, relative to hidx, of the
\* first character of the haystack at or after hidx that equals n at primary
\* strength, or -1.
primary_find(n, h, hidx) ==
    LET k == FindFrom(n, h, hidx) IN IF k = -1 THEN -1 ELSE k - hidx

(***************************************************************************)
(* The scoring context: PyScorer's level sets and max_score_per_char.      *)
(***************************************************************************)
DEFAULT_LEVEL1 == {"/"}
DEFAULT_LEVEL2 == {"-", "_", " ", "0", "1", "2", "3", "4", "5", "6", "7", "8", "9"}
DEFAULT_LEVEL3 == {"."}

\* PyScorer.__call__: (1.0 / len(item) + 1.0 / len(needle)) / 2.0
max_score_per_char(item, n) == Rat(Len(item) + Len(n), 2 * Len(item) * Len(n))

Ctx(l1, l2, l3, item, n) ==
    [level1 |-> l1, level2 |-> l2, level3 |-> l3,
     max_score_per_char |-> max_score_per_char(item, n)]

\* Variant of line 183 that multiplies by the distance instead of dividing.
calc_score_grows_with_distance(ctx, prev, current, distance) ==
    LET factor ==
            IF prev \in ctx.level1 THEN <<9, 10>>
            ELSE IF prev \in ctx.level2
                    \/ (icu_lower(prev) = prev /\ icu_upper(current) = current)
                 THEN <<8, 10>>
            ELSE IF prev \in ctx.level3 THEN <<7, 10>>
            ELSE <<3 * distance, 4>>
    IN  RMul(ctx.max_score_per_char, Rat(factor[1], factor[2]))

calc_score_for_char(ctx, prev, current, distance) ==
    LET factor ==
            IF prev \in ctx.level1 THEN <<9, 10>>
            ELSE IF prev \in ctx.level2
                    \/ (icu_lower(prev) = prev /\ icu_upper(current) = current)
                 THEN <<8, 10>>
            ELSE IF prev \in ctx.level3 THEN <<7, 10>>
            ELSE <<3, 4 * distance>>
    IN  RMul(ctx.max_score_per_char, Rat(factor[1], factor[2]))

(***************************************************************************)
(* process_item.  ForLoop is the for loop of lines 198-216 run from the    *)
(* popped state; it returns the score and positions the loop ends with and *)
(* the states it pushed, in push order.                                    *)
(***************************************************************************)
\* Variant of the test of line 200 that is off by one: it also gives up when
\* the rest of the haystack is exactly as long as the rest of the needle.
TooShortOffByOne(h, n, hidx, i) == Len(h) - hidx <= Len(n) - i

\* Line 200: the rest of the haystack is shorter than the rest of the needle.
TooShort(h, n, hidx, i) == Len(h) - hidx < Len(n) - i

\* Variant of line 213 that searches on from the match itself.
HidxAtMatch(pos) == pos

\* Line 213: hidx = pos + 1, the search goes on after the match.
HidxAfterMatch(pos) == pos + 1

RECURSIVE ForLoop(_, _, _, _, _, _, _, _, _)
ForLoop(ctx, h, n, i, hidx, last_idx, score, positions, pushed) ==
    IF i >= Len(n)
    THEN [score |-> score, positions |-> positions, pushed |-> pushed]
    ELSE IF TooShort(h, n, hidx, i)
    THEN [score |-> Zero, positions |-> positions, pushed |-> pushed]
    ELSE LET p == primary_find(n[i + 1], h, hidx) IN
         IF p = -1
         THEN [score |-> Zero, positions |-> positions, pushed |-> pushed]
         ELSE LET pos == p + hidx
                  distance == pos - last_idx
                  score_for_char ==
                      IF distance <= 1 THEN ctx.max_score_per_char
                      ELSE calc_score_for_char(ctx, h[pos], h[pos + 1], distance)
              IN  ForLoop(ctx, h, n, i + 1, HidxAfterMatch(pos), pos,
                          RAdd(score, score_for_char),
                          [positions EXCEPT ![i + 1] = pos],
                          Append(pushed, [hidx |-> HidxAfterMatch(pos), nidx |-> i,
                                          last_idx |-> last_idx, score |-> score,
                                          positions |-> positions]))

\* The state process_item starts from (line 190-191); final_positions is the
\* very list of the first stack entry.
InitialPositions(n) == [k \in 1..Len(n) |-> -1]

\* Variant of line 190 whose first state has last_idx = 1.
StartStateLastOne(n) ==
    [stack |-> <<[hidx |-> 0, nidx |-> 0, last_idx |-> 1, score |-> Zero,
                  positions |-> InitialPositions(n)]>>,
     memory |-> [k \in {} |-> Zero],
     final_score |-> Zero,
     final_positions |-> InitialPositions(n),
     first |-> TRUE]

StartState(n) ==
    [stack |-> <<[hidx |-> 0, nidx |-> 0, last_idx |-> 0, score |-> Zero,
                  positions |-> InitialPositions(n)]>>,
     memory |-> [k \in {} |-> Zero],
     final_score |-> Zero,
     final_positions |-> InitialPositions(n),
     first |-> TRUE]

\* The memo lookup of line 196.
MemoHit(mem, key) == key \in DOMAIN mem

\* One iteration of the while loop (lines 194-222) on state st.
PopStep(ctx, h, n, st) ==
    LET top == st.stack[Len(st.stack)]
        rest == SubSeq(st.stack, 1, Len(st.stack) - 1)
        key == <<top.hidx, top.nidx, top.last_idx>>
        hit == MemoHit(st.memory, key)
        run == ForLoop(ctx, h, n, top.nidx, top.hidx, top.last_idx, top.score,
                       top.positions, <<>>)
        score == IF hit THEN st.memory[key].score ELSE run.score
        positions == IF hit THEN st.memory[key].positions ELSE run.positions
        better == RLess(st.final_score, score)
    IN  [stack |-> IF hit THEN rest ELSE rest \o run.pushed,
         memory |-> IF hit THEN st.memory
                    ELSE [k \in DOMAIN st.memory \cup {key} |->
                             IF k = key THEN [score |-> score, positions |-> positions]
                             ELSE st.memory[k]],
         final_score |-> IF better THEN score ELSE st.final_score,
         \* In the first iteration the popped positions list is the list
         \* final_positions names, and the loop writes into it in place.
         final_positions |-> IF better \/ st.first THEN positions
                             ELSE st.final_positions,
         first |-> FALSE]

RECURSIVE RunStack(_, _, _, _)
RunStack(ctx, h, n, st) ==
    IF st.stack = <<>> THEN st ELSE RunStack(ctx, h, n, PopStep(ctx, h, n, st))

\* process_item(ctx, haystack, needle) -> (final_score, final_positions)
process_item(ctx, h, n) ==
    LET st == RunStack(ctx, h, n, StartState(n))
    IN  [score |-> st.final_score, positions |-> st.final_positions]

(***************************************************************************)
(* The scorers.  A scorer object holds its partition's strings and the     *)
(* level sets.  PyScorer.__call__ is a generator function: calling it runs *)
(* no scoring, the scoring runs when the generator is iterated.            *)
(* EagerScorer stands for a scorer supplied by the caller through the      *)
(* scorer argument of Matcher.__init__ whose call scores before it returns.*)
(***************************************************************************)
ScorerKinds == {"PyScorer", "EagerScorer"}

\* scorer(items): PyScorer.__init__ with the default level sets, as
\* Matcher.__init__ passes the items only (lines 107-109).
NewScorer(kind, items) ==
    [kind |-> kind, items |-> items, level1 |-> DEFAULT_LEVEL1,
     level2 |-> DEFAULT_LEVEL2, level3 |-> DEFAULT_LEVEL3]

\* Line 249 divides by len(needle): ZeroDivisionError for the empty needle,
\* at the first item.
ScorerRaises(sc, q) == sc.items # <<>> /\ q = <<>>

\* The sequence the scorer yields for needle q, one pair per item, in order.
ScorerVals(sc, q) ==
    [j \in 1..Len(sc.items) |->
        process_item(Ctx(sc.level1, sc.level2, sc.level3, sc.items[j], q),
                     sc.items[j], q)]

(***************************************************************************)
(* split and Matcher.__init__.                                             *)
(***************************************************************************)
\* Variant of line 70 with a floor division in place of the true division.
FloorDiv(a, b) == a \div b

\* math.ceil(a / b)
Ceil(a, b) == (a + b - 1) \div b

\* tasks[:delta] and tasks[delta:]
Take(tasks, delta) == SubSeq(tasks, 1, IF delta < Len(tasks) THEN delta ELSE Len(tasks))

Drop(tasks, delta) == SubSeq(tasks, Len(Take(tasks, delta)) + 1, Len(tasks))

\* Variant of line 72 that pairs each element with its index in the batch.
SectionLocalIndex(tasks, delta, count) ==
    [i \in 1..Len(Take(tasks, delta)) |-> <<i - 1, tasks[i]>>]

\* Line 72: the next batch, each element with its index in the original list.
Section(tasks, delta, count) ==
    [i \in 1..Len(Take(tasks, delta)) |-> <<count + i - 1, tasks[i]>>]

RECURSIVE SplitFrom(_, _, _)
SplitFrom(tasks, delta, count) ==
    IF tasks = <<>> THEN <<>>
    ELSE <<Section(tasks, delta, count)>>
             \o SplitFrom(Drop(tasks, delta), delta, count + Len(Section(tasks, delta, count)))

\* Variant of lines 69-76 whose loop body runs once before the test of line 71:
\* an empty list yields one empty sub list.
splitAtLeastOnce(tasks, pool_size) ==
    IF tasks = <<>> THEN << <<>> >> ELSE SplitFrom(tasks, Ceil(Len(tasks), pool_size), 0)

split(tasks, pool_size) == SplitFrom(tasks, Ceil(Len(tasks), pool_size), 0)

\* Variant of line 102 that stops at the first empty or absent entry instead
\* of skipping it.
RECURSIVE FilterUntilNone(_)
FilterUntilNone(items) ==
    IF items = <<>> THEN <<>>
    ELSE IF Head(items) = <<>> THEN <<>>
    ELSE <<Head(items)>> \o FilterUntilNone(Tail(items))

\* filter(None, items): an empty or absent entry is <<>>.
RECURSIVE FilterNone(_)
FilterNone(items) ==
    IF items = <<>> THEN <<>>
    ELSE IF Head(items) = <<>> THEN FilterNone(Tail(items))
    ELSE <<Head(items)>> \o FilterNone(Tail(items))

\* Line 105: task_maps[t][j + 1] is the index in items of the j-th string of
\* task t.
TaskMaps(tasks) == [t \in 1..Len(tasks) |-> [j \in 1..Len(tasks[t]) |-> tasks[t][j][1]]]

\* Lines 107-109: one scorer per task, constructed from the task's strings only.
Scorers(kind, tasks) ==
    [t \in 1..Len(tasks) |-> NewScorer(kind, [j \in 1..Len(tasks[t]) |-> tasks[t][j][2]])]

\* self.sort_keys = None
NoSortKeys == [set |-> FALSE, keys |-> <<>>]

\* The Matcher object built by lines 102-110 for len(workers) = nworkers.
NewMatcher(raw_items, kind, nworkers) ==
    LET items == FilterNone(raw_items)
        tasks == split(items, nworkers)
    IN  [items |-> items,
         task_maps |-> TaskMaps(tasks),
         scorers |-> Scorers(kind, tasks),
         sort_keys |-> NoSortKeys]

\* primary_sort_key(x), from calibre.utils.icu: the primary keys of x's characters.
primary_sort_key(x) == [k \in 1..Len(x) |-> PrimaryKey(x[k])]

(***************************************************************************)
(* Ranking: lines 140-145 of Matcher.__call__.                             *)
(***************************************************************************)
\* The place of x in a list sorted by key -score: before the first element
\* whose key is greater, so after the elements with the same key.
\* Variant of line 141 whose key is the score instead of -score.
ComesBeforeAscending(x, e) == RLess(x.score, e.score)

ComesBefore(x, e) == RLess(e.score, x.score)

RECURSIVE Insert(_, _)
Insert(s, x) ==
    IF s = <<>> THEN <<x>>
    ELSE IF ComesBefore(x, Head(s)) THEN <<x>> \o s
    ELSE <<Head(s)>> \o Insert(Tail(s), x)

RECURSIVE SortedPrefix(_, _)
SortedPrefix(seq, n) == IF n = 0 THEN <<>> ELSE Insert(SortedPrefix(seq, n - 1), seq[n])

\* Variant of lines 140-142 without the sort: the list stays in input order.
Unsorted(seq) == seq

\* sorted(..., key=itemgetter(0)): a stable sort.
sorted(seq) == SortedPrefix(seq, Len(seq))

\* del items[limit:]
Truncate(seq, limit) ==
    IF ~limit.given THEN seq
    ELSE SubSeq(seq, 1, IF limit.k < Len(seq) THEN limit.k ELSE Len(seq))

\* filter(itemgetter(0), items) keeps x when x[0], that is -score, is not 0.
Kept(x) == x.score # Zero

RECURSIVE Filter(_)
Filter(seq) ==
    IF seq = <<>> THEN <<>>
    ELSE IF Kept(Head(seq)) THEN <<Head(seq)>> \o Filter(Tail(seq))
    ELSE Filter(Tail(seq))

\* Variant of line 145 in which a key takes the place of its last pair.
RECURSIVE OrderedDictLastPlace(_, _)
OrderedDictLastPlace(pairs, acc) ==
    IF pairs = <<>> THEN acc
    ELSE OrderedDictLastPlace(Tail(pairs),
             Append(SelectSeq(acc, LAMBDA e : e[1] # Head(pairs)[1]), Head(pairs)))

\* OrderedDict(pairs): a key keeps the place of its first pair and the value of
\* its last.
RECURSIVE OrderedDict(_, _)
OrderedDict(pairs, acc) ==
    IF pairs = <<>> THEN acc
    ELSE LET p == Head(pairs)
             known == \E k \in DOMAIN acc : acc[k][1] = p[1]
         IN  OrderedDict(Tail(pairs),
                 IF known
                 THEN [k \in DOMAIN acc |-> IF acc[k][1] = p[1] THEN p ELSE acc[k]]
                 ELSE Append(acc, p))

\* The mapping returned for the merged table (scores, positions): a sequence of
\* <<candidate, positions>> pairs in the mapping's order.
Rank(items, table, limit) ==
    LET triples == [i \in 1..Len(items) |->
                       [score |-> table[i - 1].score, item |-> items[i],
                        positions |-> table[i - 1].positions]]
        top == Filter(Truncate(sorted(triples), limit))
    IN  OrderedDict([k \in 1..Len(top) |-> <<top[k].item, top[k].positions>>], <<>>)

(***************************************************************************)
(* The worker pool and the query call.                                     *)
(***************************************************************************)
MaxCalls == 3
MaxMatchers == 2
MaxLimit == 1

Callers == {"t1", "t2"}
CpuCounts == {0, 1, 2}     \* what detect_ncpus() may return

A == "a"
B == "b"
\* The item sequences Matchers are constructed from; the last one has no valid
\* entry.
ItemInputs == { << <<A, B>>, <<A>>, <<B, A>> >>,
                << <<B>>, <<>>, <<A>> >>,
                << <<>> >> }
\* The queries; the empty string is one of them.
Queries == { <<>>, <<A>>, <<B>> }
Limits == {[given |-> FALSE, k |-> 0]} \cup {[given |-> TRUE, k |-> k] : k \in 0..MaxLimit}

NoJob == [none |-> TRUE, i |-> 0, m |-> 0, q |-> <<>>, call |-> 0]
NoError == [set |-> FALSE, msg |-> <<>>]
NoCall == [m |-> 0, query |-> <<>>, k |-> 0, num |-> 0, table |-> <<>>,
           error |-> NoError, id |-> 0, got |-> <<>>]
NoLimit == [given |-> FALSE, k |-> 0]
NoRet == [kind |-> "none", exc |-> "", msg |-> <<>>, value |-> <<>>, m |-> 0,
          query |-> <<>>, limit |-> NoLimit, table |-> <<>>, id |-> 0, got |-> <<>>]

NoArgs == [items |-> <<>>, level1 |-> {}, level2 |-> {}, level3 |-> {}, scorer |-> ""]
NoSelf == [items |-> <<>>, task_maps |-> <<>>, scorers |-> <<>>, sort_keys |-> NoSortKeys]

\* No run of Matcher.__init__ is being followed step by step.
CtorOff ==
    /\ ctor_pc = "off"
    /\ ctor_args = NoArgs
    /\ extension_loads = TRUE
    /\ self = NoSelf
    /\ split_tasks = <<>>
    /\ split_delta = 0
    /\ split_count = 0
    /\ split_ans = <<>>
    /\ ctor_exc = ""
    /\ ctor_runs = 0
    /\ accel_attempts = 0

\* No call of calc_score_for_char is being followed.
CharOff ==
    /\ char_ctx = Ctx({}, {}, {}, <<"a">>, <<"a">>)
    /\ char_prev = ""
    /\ char_current = ""
    /\ char_distance = 0
    /\ char_score = Zero
    /\ pc_char = "off"

\* No run of the ranking lines is being followed.
RankOff ==
    /\ rank_items = <<>>
    /\ rank_table = <<>>
    /\ rank_limit = NoLimit
    /\ rank_value = <<>>
    /\ pc_rank = "off"

\* No PyScorer object is being followed.
GenOff ==
    /\ gen_items = <<>>
    /\ gen_needle = <<>>
    /\ gen_done = 0
    /\ gen_memory = <<>>
    /\ gen_max = Zero
    /\ gen_vals = <<>>
    /\ gen_calls = 0
    /\ pc_gen = "off"

\* A result whose payload is the generator object scorer(query) returned.
LazyResult(job) ==
    [ok |-> TRUE, i |-> job.i, lazy |-> TRUE, vals |-> <<>>,
     gen |-> [m |-> job.m, i |-> job.i, q |-> job.q], err |-> <<>>, call |-> job.call]

ListResult(job, vals) ==
    [ok |-> TRUE, i |-> job.i, lazy |-> FALSE, vals |-> vals,
     gen |-> [m |-> 0, i |-> 0, q |-> <<>>], err |-> <<>>, call |-> job.call]

\* (False, as_unicode(e)); the message is kept apart per failed job.
FailResult(job) ==
    [ok |-> FALSE, i |-> job.i, lazy |-> FALSE, vals |-> <<>>,
     gen |-> [m |-> 0, i |-> 0, q |-> <<>>], err |-> <<"error", job.call, job.i>>,
     call |-> job.call]

\* Worker.run, line 51: scorer(query), inside the try.
ScorerCall(job, sc) ==
    IF sc.kind = "PyScorer" THEN LazyResult(job)
    ELSE IF ScorerRaises(sc, job.q) THEN FailResult(job)
    ELSE ListResult(job, ScorerVals(sc, job.q))

PoolInit ==
    /\ workers = <<>>
    /\ requests = <<>>
    /\ results = <<>>
    /\ wlock = "free"
    /\ matchers = <<>>
    /\ pc = [t \in Callers |-> "idle"]
    /\ call = [t \in Callers |-> NoCall]
    /\ ret = NoRet
    /\ ncalls = 0
    /\ items_arg = <<>>
    /\ signals_sent = 0

\* Variant of lines 97-101 without the test of line 97: every construction
\* adds workers.
StartWorkersAlways(ws, ncpu) ==
    ws \o [w \in 1..(IF ncpu > 1 THEN ncpu ELSE 1) |-> [pc |-> "idle", job |-> NoJob]]

\* Lines 97-101: the list workers after the with block, ws being the list
\* before and ncpu what cpu_count() returns.
StartWorkers(ws, ncpu) ==
    IF ws = <<>>
    THEN [w \in 1..(IF ncpu > 1 THEN ncpu ELSE 1) |-> [pc |-> "idle", job |-> NoJob]]
    ELSE ws

\* Matcher.__init__ (lines 96-110); the first construction starts the workers.
Construct ==
    /\ wlock = "free"
    /\ Len(matchers) < MaxMatchers
    /\ workers' = StartWorkers(workers, cpu_count)
    /\ \E raw \in ItemInputs, kind \in ScorerKinds :
          /\ matchers' = Append(matchers, NewMatcher(raw, kind, Len(workers')))
          /\ items_arg' = Append(items_arg, raw)
    /\ UNCHANGED <<requests, results, wlock, pc, call, ret, ncalls, signals_sent>>
    /\ UNCHANGED <<score_vars, cpu_count, ctor_vars, char_vars, rank_vars, gen_vars>>

\* Variant of line 48 with continue in place of break: the worker goes on to
\* the next request.
BreakAsContinue(w) == [pc |-> "idle", job |-> NoJob]

\* Line 48: break leaves the loop and run returns; the thread has ended.
Break(w) == [pc |-> "exited", job |-> NoJob]

\* Worker.run, line 46-48: take the next request.
WorkerGet(w) ==
    /\ workers[w].pc = "idle"
    /\ requests # <<>>
    /\ requests' = Tail(requests)
    /\ workers' = [workers EXCEPT ![w] =
                      IF Head(requests).none
                      THEN Break(w)
                      ELSE [pc |-> "busy", job |-> Head(requests)]]
    /\ UNCHANGED <<results, wlock, matchers, pc, call, ret, ncalls>>
    /\ UNCHANGED <<items_arg, signals_sent>>
    /\ UNCHANGED <<score_vars, cpu_count, ctor_vars, char_vars, rank_vars, gen_vars>>

\* Worker.run, lines 49-53: call the scorer and put the result.
WorkerPut(w) ==
    /\ workers[w].pc = "busy"
    /\ LET job == workers[w].job
       IN  results' = Append(results, ScorerCall(job, matchers[job.m].scorers[job.i + 1]))
    /\ workers' = [workers EXCEPT ![w] = [pc |-> "idle", job |-> NoJob]]
    /\ UNCHANGED <<requests, wlock, matchers, pc, call, ret, ncalls>>
    /\ UNCHANGED <<items_arg, signals_sent>>
    /\ UNCHANGED <<score_vars, cpu_count, ctor_vars, char_vars, rank_vars, gen_vars>>

\* Matcher.__call__, lines 113-114: normalise the query and take the lock.
Acquire(t) ==
    /\ pc[t] = "idle"
    /\ wlock = "free"
    /\ ncalls < MaxCalls
    /\ \E m \in 1..Len(matchers), q \in Queries :
          call' = [call EXCEPT ![t] = [NoCall EXCEPT !.m = m, !.query = q,
                                                      !.id = ncalls + 1]]
    /\ wlock' = t
    /\ pc' = [pc EXCEPT ![t] = "put"]
    /\ ncalls' = ncalls + 1
    /\ ret' = NoRet
    /\ UNCHANGED <<workers, requests, results, matchers>>
    /\ UNCHANGED <<items_arg, signals_sent>>
    /\ UNCHANGED <<score_vars, cpu_count, ctor_vars, char_vars, rank_vars, gen_vars>>

\* Lines 115-116: one requests.put per scorer.
Put(t) ==
    /\ pc[t] = "put"
    /\ call[t].k < Len(matchers[call[t].m].scorers)
    /\ requests' = Append(requests, [none |-> FALSE, i |-> call[t].k, m |-> call[t].m,
                                     q |-> call[t].query, call |-> call[t].id])
    /\ call' = [call EXCEPT ![t].k = @ + 1]
    /\ UNCHANGED <<workers, results, wlock, matchers, pc, ret, ncalls>>
    /\ UNCHANGED <<items_arg, signals_sent>>
    /\ UNCHANGED <<score_vars, cpu_count, ctor_vars, char_vars, rank_vars, gen_vars>>

\* The keys line 118-120 compute for Matcher M.
ComputedSortKeys(M) ==
    [set |-> TRUE, keys |-> [i \in 1..Len(M.items) |-> primary_sort_key(M.items[i])]]

\* Variant of lines 117-121 that drops a cache it finds instead of keeping it.
SortKeysDropped(M) == IF M.sort_keys.set THEN NoSortKeys ELSE ComputedSortKeys(M)

\* Lines 117-121: self.sort_keys after the if statement.
SortKeysAfter(M) == IF M.sort_keys.set THEN M.sort_keys ELSE ComputedSortKeys(M)

\* Lines 117-124: the sort keys, computed once, and the locals of the collection.
BeginCollect(t) ==
    /\ pc[t] = "put"
    /\ call[t].k = Len(matchers[call[t].m].scorers)
    /\ LET M == matchers[call[t].m]
       IN  /\ matchers' = [matchers EXCEPT ![call[t].m].sort_keys = SortKeysAfter(M)]
           /\ call' = [call EXCEPT ![t].num = Len(M.task_maps),
                                   ![t].table = [i \in {} |-> 0],
                                   ![t].error = NoError]
    /\ pc' = [pc EXCEPT ![t] = "collect"]
    /\ UNCHANGED <<workers, requests, results, wlock, ret, ncalls>>
    /\ UNCHANGED <<items_arg, signals_sent>>
    /\ UNCHANGED <<score_vars, cpu_count, ctor_vars, char_vars, rank_vars, gen_vars>>

\* Iterating the payload of result r raises ZeroDivisionError: r holds a
\* generator, and the scoring of line 249 runs only now, in the calling thread.
GenRaises(r) == r.lazy /\ ScorerRaises(matchers[r.gen.m].scorers[r.gen.i + 1], r.gen.q)

\* The pairs the iteration of line 131 gets from the payload of result r.
ResultVals(r) ==
    IF ~r.lazy THEN r.vals
    ELSE IF GenRaises(r) THEN <<>>
    ELSE ScorerVals(matchers[r.gen.m].scorers[r.gen.i + 1], r.gen.q)

\* Lines 130-134 for the pairs vals of task r.i, with task_map the map line 130
\* reads (<<>> when task_maps has no such index): the table after the loop.
MergeVals(tbl, task_map, vals) ==
    LET n == IF Len(vals) < Len(task_map) THEN Len(vals) ELSE Len(task_map)
    IN  [i \in DOMAIN tbl \cup {task_map[j] : j \in 1..n} |->
            IF \E j \in 1..n : task_map[j] = i
            THEN vals[CHOOSE j \in 1..n : task_map[j] = i]
            ELSE tbl[i]]

\* The exception lines 129-134 raise for result r, "" when none.
MergeExc(r, zero_div, no_map, task_map, vals) ==
    IF no_map THEN "IndexError"
    ELSE IF zero_div THEN "ZeroDivisionError"
    ELSE IF Len(vals) > Len(task_map) THEN "KeyError"
    ELSE ""

MergeWith(M, tbl, r, no_map, vals) ==
    [exc |-> MergeExc(r, GenRaises(r), no_map,
                      IF no_map THEN <<>> ELSE M.task_maps[r.i + 1], vals),
     table |-> MergeVals(tbl, IF no_map THEN <<>> ELSE M.task_maps[r.i + 1], vals)]

\* What lines 129-134 do with a successful result r in a call on Matcher M whose
\* table is tbl: the exception they raise ("" when none) and the table after.
Merge(M, tbl, r) == MergeWith(M, tbl, r, r.i >= Len(M.task_maps), ResultVals(r))

\* Variant of line 114 without the with statement: the lock stays with the
\* thread that took it.
WithExitHeld(t) == t

\* The state of wlock when control leaves the with block of line 114.
WithExit(t) == "free"

\* The call of thread t ends: what it returned or raised is recorded in ret.
EndCall(t, outcome) ==
    /\ pc' = [pc EXCEPT ![t] = "idle"]
    /\ call' = [call EXCEPT ![t] = NoCall]
    /\ ret' = [outcome EXCEPT !.m = call[t].m, !.query = call[t].query,
                              !.id = call[t].id]

\* Lines 127-136 for the dequeued result r, merged as mg.
CollectResult(t, r, got, mg) ==
    IF r.ok /\ mg.exc # ""
    THEN /\ wlock' = WithExit(t)
         /\ EndCall(t, [NoRet EXCEPT !.kind = "raised", !.exc = mg.exc, !.got = got])
    ELSE /\ call' = [call EXCEPT ![t].num = @ - 1,
                                 ![t].got = got,
                                 ![t].table = IF r.ok THEN mg.table ELSE @,
                                 ![t].error = IF r.ok THEN @
                                              ELSE [set |-> TRUE, msg |-> r.err]]
         /\ UNCHANGED <<wlock, pc, ret>>

\* Lines 125-136: one iteration of the collection loop.  An exception raised
\* while the result is merged leaves the with block and the call.
Collect(t) ==
    /\ pc[t] = "collect"
    /\ call[t].num > 0
    /\ results # <<>>
    /\ results' = Tail(results)
    /\ CollectResult(t, Head(results), Append(call[t].got, Head(results).call),
                     Merge(matchers[call[t].m], call[t].table, Head(results)))
    /\ UNCHANGED <<workers, requests, matchers, ncalls>>
    /\ UNCHANGED <<items_arg, signals_sent>>
    /\ UNCHANGED <<score_vars, cpu_count, ctor_vars, char_vars, rank_vars, gen_vars>>

\* Lines 137-145: leave the with block, then raise the aggregated failure or
\* rank the table and return.  limit is an argument of the call; it is read
\* here for the first time (line 143).
Finish(t) ==
    /\ pc[t] = "collect"
    /\ call[t].num = 0
    /\ wlock' = WithExit(t)
    /\ LET M == matchers[call[t].m]
           c == call[t]
       IN  IF c.error.set
           THEN EndCall(t, [NoRet EXCEPT !.kind = "failed", !.exc = "Exception",
                                         !.msg = c.error.msg, !.got = c.got])
           ELSE IF \E i \in 0..(Len(M.items) - 1) : i \notin DOMAIN c.table
           THEN EndCall(t, [NoRet EXCEPT !.kind = "raised", !.exc = "KeyError",
                                         !.got = c.got, !.table = c.table])
           ELSE \E limit \in Limits :
                   EndCall(t, [NoRet EXCEPT !.kind = "returned", !.limit = limit,
                                            !.value = Rank(M.items, c.table, limit),
                                            !.got = c.got, !.table = c.table])
    /\ UNCHANGED <<workers, requests, results, matchers, ncalls>>
    /\ UNCHANGED <<items_arg, signals_sent>>
    /\ UNCHANGED <<score_vars, cpu_count, ctor_vars, char_vars, rank_vars, gen_vars>>

(***************************************************************************)
(* Inputs of the scoring runs.                                             *)
(***************************************************************************)
MaxHay == 6
MaxNeedle == 3

ScoreAlphabet == {"a", "/"}

RECURSIVE SeqsUpTo(_, _)
SeqsUpTo(S, k) ==
    IF k = 0 THEN {<<>>}
    ELSE LET shorter == SeqsUpTo(S, k - 1)
         IN  shorter \cup {Append(s, c) : s \in {x \in shorter : Len(x) = k - 1}, c \in S}

\* The candidates of the specification's section 8 examples.
ExampleHaystacks ==
    { <<"i", "m", "/", "o", "n", "e", ".", "g", "i", "f">>,
      <<"i", "m", "/", "t", "w", "o", ".", "g", "i", "f">>,
      <<"t", "e", "x", "t", "/", "o", "n", "e", ".", "h", "t", "m", "l">> }
ExampleNeedle == <<"o", "n", "e">>

ScoreInputs ==
    {<<h, n>> : h \in SeqsUpTo(ScoreAlphabet, MaxHay) \ {<<>>},
                n \in SeqsUpTo(ScoreAlphabet, MaxNeedle) \ {<<>>}}
    \cup {<<h, ExampleNeedle>> : h \in ExampleHaystacks}
    \cup { << <<"E'">>, <<"e">> >>,
           << <<"f", "o", "o", "B", "a", "r">>, <<"f", "b">> >>,
           << <<"f", "o", "o", "b", "a", "r">>, <<"f", "b">> >>,
           << <<"a", "B", "b">>, <<"A", "b">> >> }

DefaultCtx(h, n) == Ctx(DEFAULT_LEVEL1, DEFAULT_LEVEL2, DEFAULT_LEVEL3, h, n)

ScoreState ==
    [stack |-> stack, memory |-> memory, final_score |-> final_score,
     final_positions |-> final_positions, first |-> (DOMAIN memory = {})]

ScoreOff ==
    /\ haystack = <<>>
    /\ needle = <<>>
    /\ stack = <<>>
    /\ memory = <<>>
    /\ final_score = Zero
    /\ final_positions = <<>>
    /\ pc_score = "off"

InitScore ==
    /\ \E in \in ScoreInputs :
          /\ haystack = in[1]
          /\ needle = in[2]
    /\ stack = StartState(needle).stack
    /\ memory = StartState(needle).memory
    /\ final_score = Zero
    /\ final_positions = InitialPositions(needle)
    /\ pc_score = "run"
    /\ PoolInit
    /\ cpu_count = Cardinality(Callers)
    /\ CtorOff
    /\ CharOff
    /\ RankOff
    /\ GenOff

\* One iteration of process_item's while loop.
PopState ==
    /\ pc_score = "run"
    /\ stack # <<>>
    /\ LET st == PopStep(DefaultCtx(haystack, needle), haystack, needle, ScoreState)
       IN  /\ stack' = st.stack
           /\ memory' = st.memory
           /\ final_score' = st.final_score
           /\ final_positions' = st.final_positions
    /\ UNCHANGED <<haystack, needle, pc_score>>
    /\ UNCHANGED <<pool_vars, cpu_count, ctor_vars, char_vars, rank_vars, gen_vars>>

\* The while loop ends and process_item returns (line 223).
ReturnScore ==
    /\ pc_score = "run"
    /\ stack = <<>>
    /\ pc_score' = "done"
    /\ UNCHANGED <<haystack, needle, stack, memory, final_score, final_positions>>
    /\ UNCHANGED <<pool_vars, cpu_count, ctor_vars, char_vars, rank_vars, gen_vars>>

NextScore == PopState \/ ReturnScore

SpecScore == InitScore /\ [][NextScore]_vars

(***************************************************************************)
(* Matcher.__init__ step by step, with split's loop (specification         *)
(* SpecInit).                                                              *)
(***************************************************************************)
MaxItems == 4
MaxCpu == 3

\* The entries of the items argument: an empty entry, which filter(None, ...)
\* drops, and two strings.
CtorStrings == {<<>>, <<"a">>, <<"a", ".", "b">>}
CtorItemInputs == SeqsUpTo(CtorStrings, MaxItems)

\* The level arguments: the defaults, and sets that differ from them.
LevelInputs ==
    {[level1 |-> DEFAULT_LEVEL1, level2 |-> DEFAULT_LEVEL2, level3 |-> DEFAULT_LEVEL3],
     [level1 |-> {"."}, level2 |-> DEFAULT_LEVEL2, level3 |-> {"/"}]}

\* The scorer argument: None (the default_scorer factory) or the PyScorer class.
ScorerArgs == {"None", "PyScorer"}

\* CScorer.__init__, line 265: the import statement raises ImportError when the
\* extension module cannot be loaded.
CScorerInit(loads) == IF loads THEN "" ELSE "ImportError"

\* Line 82: except PluginFailed.
IsPluginFailed(exc) == exc = "PluginFailed"

\* default_scorer (lines 79-83): the kind of the scorer it returns, or the
\* exception that leaves it.
default_scorer(loads) ==
    IF CScorerInit(loads) = "" THEN [kind |-> "CScorer", exc |-> ""]
    ELSE IF IsPluginFailed(CScorerInit(loads)) THEN [kind |-> "PyScorer", exc |-> ""]
    ELSE [kind |-> "", exc |-> CScorerInit(loads)]

\* Lines 106-109: scorer = scorer or default_scorer, called once per task.
ScorerFactory(arg, loads) ==
    IF arg = "None" THEN default_scorer(loads) ELSE [kind |-> arg, exc |-> ""]

\* The runs of CScorer.__init__ while the scorers of lines 107-109 are built:
\* default_scorer tries it first in every call (line 81), once per task, and
\* the first exception ends the list comprehension.
FactoryAttempts(arg, loads, tasks) ==
    IF arg # "None" THEN 0
    ELSE IF ScorerFactory(arg, loads).exc = "" THEN Len(tasks)
    ELSE IF tasks = <<>> THEN 0
    ELSE 1

MaxCtorRuns == 2

InitCtor ==
    /\ ScoreOff
    /\ PoolInit
    /\ cpu_count \in 0..MaxCpu
    /\ ctor_pc = "lock"
    /\ \E items \in CtorItemInputs, levels \in LevelInputs, scorer \in ScorerArgs :
          ctor_args = [items |-> items, level1 |-> levels.level1, level2 |-> levels.level2,
                       level3 |-> levels.level3, scorer |-> scorer]
    /\ extension_loads \in BOOLEAN
    /\ self = NoSelf
    /\ split_tasks = <<>>
    /\ split_delta = 0
    /\ split_count = 0
    /\ split_ans = <<>>
    /\ ctor_exc = ""
    /\ ctor_runs = 1
    /\ accel_attempts = 0
    /\ CharOff
    /\ RankOff
    /\ GenOff

\* Lines 96-101: under the lock, start the workers if there are none.
CtorLock ==
    /\ ctor_pc = "lock"
    /\ wlock = "free"
    /\ workers' = StartWorkers(workers, cpu_count)
    /\ ctor_pc' = "items"
    /\ UNCHANGED <<requests, results, wlock, matchers, pc, call, ret, ncalls>>
    /\ UNCHANGED <<ctor_args, extension_loads, self, split_tasks, split_delta, split_count,
                   split_ans, ctor_exc, ctor_runs, accel_attempts>>
    /\ UNCHANGED <<items_arg, signals_sent>>
    /\ UNCHANGED <<score_vars, cpu_count, char_vars, rank_vars, gen_vars>>

\* Lines 102-104 and 69-70: self.items, then split(items, len(workers)) begins.
CtorItems ==
    /\ ctor_pc = "items"
    /\ self' = [self EXCEPT !.items = FilterNone(ctor_args.items)]
    /\ split_tasks' = FilterNone(ctor_args.items)
    /\ split_ans' = <<>>
    /\ split_count' = 0
    /\ split_delta' = Ceil(Len(FilterNone(ctor_args.items)), Len(workers))
    /\ ctor_pc' = "split"
    /\ UNCHANGED <<ctor_args, extension_loads, ctor_exc, ctor_runs, accel_attempts>>
    /\ UNCHANGED <<score_vars, pool_vars, cpu_count, char_vars, rank_vars, gen_vars>>

\* Lines 71-75: one iteration of split's while loop.
SplitStep ==
    /\ ctor_pc = "split"
    /\ split_tasks # <<>>
    /\ split_ans' = Append(split_ans, Section(split_tasks, split_delta, split_count))
    /\ split_tasks' = Drop(split_tasks, split_delta)
    /\ split_count' = split_count + Len(Section(split_tasks, split_delta, split_count))
    /\ UNCHANGED <<ctor_pc, ctor_args, extension_loads, self, split_delta, ctor_exc,
                   ctor_runs, accel_attempts>>
    /\ UNCHANGED <<score_vars, pool_vars, cpu_count, char_vars, rank_vars, gen_vars>>

\* Lines 76 and 105: split returns ans; the task maps are built from it.
SplitReturn ==
    /\ ctor_pc = "split"
    /\ split_tasks = <<>>
    /\ self' = [self EXCEPT !.task_maps = TaskMaps(split_ans)]
    /\ ctor_pc' = "scorers"
    /\ UNCHANGED <<ctor_args, extension_loads, split_tasks, split_delta, split_count,
                   split_ans, ctor_exc, ctor_runs, accel_attempts>>
    /\ UNCHANGED <<score_vars, pool_vars, cpu_count, char_vars, rank_vars, gen_vars>>

\* Lines 106-110: the scorers, one call of the factory per task; an exception of
\* the factory leaves Matcher.__init__.
CtorScorers ==
    /\ ctor_pc = "scorers"
    /\ IF split_ans # <<>> /\ ScorerFactory(ctor_args.scorer, extension_loads).exc # ""
       THEN /\ ctor_exc' = ScorerFactory(ctor_args.scorer, extension_loads).exc
            /\ ctor_pc' = "raised"
            /\ UNCHANGED self
       ELSE /\ self' = [self EXCEPT
                           !.scorers = Scorers(ScorerFactory(ctor_args.scorer,
                                                             extension_loads).kind, split_ans),
                           !.sort_keys = NoSortKeys]
            /\ ctor_pc' = "done"
            /\ UNCHANGED ctor_exc
    /\ accel_attempts' =
          accel_attempts + FactoryAttempts(ctor_args.scorer, extension_loads, split_ans)
    /\ UNCHANGED <<ctor_args, extension_loads, split_tasks, split_delta, split_count,
                   split_ans, ctor_runs>>
    /\ UNCHANGED <<score_vars, pool_vars, cpu_count, char_vars, rank_vars, gen_vars>>

\* Line 88 again: the process constructs another Matcher once the last
\* construction has returned or raised.
CtorAgain ==
    /\ ctor_pc \in {"done", "raised"}
    /\ ctor_runs < MaxCtorRuns
    /\ ctor_runs' = ctor_runs + 1
    /\ ctor_pc' = "lock"
    /\ \E items \in CtorItemInputs, levels \in LevelInputs, scorer \in ScorerArgs :
          ctor_args' = [items |-> items, level1 |-> levels.level1, level2 |-> levels.level2,
                        level3 |-> levels.level3, scorer |-> scorer]
    /\ self' = NoSelf
    /\ split_tasks' = <<>>
    /\ split_delta' = 0
    /\ split_count' = 0
    /\ split_ans' = <<>>
    /\ ctor_exc' = ""
    /\ UNCHANGED <<extension_loads, accel_attempts>>
    /\ UNCHANGED <<score_vars, pool_vars, cpu_count, char_vars, rank_vars, gen_vars>>

NextCtor == CtorLock \/ CtorItems \/ SplitStep \/ SplitReturn \/ CtorScorers \/ CtorAgain

SpecInit == InitCtor /\ [][NextCtor]_vars

(***************************************************************************)
(* One call of calc_score_for_char (specification SpecChar).               *)
(***************************************************************************)
MaxDistance == 4
MaxCharItem == 3

\* The characters given as prev and current: letters of both cases, one of
\* them accented, a digit, the default separators of the three levels, and a
\* punctuation mark that is in no level set.
CharInputs == {"a", "b", "B", "e'", "1", "/", "-", ".", "!"}

\* The contexts: each level setting with the max_score_per_char of an item of
\* up to MaxCharItem characters and a needle no longer than the item.
CtxInputs ==
    {[level1 |-> l.level1, level2 |-> l.level2, level3 |-> l.level3,
      max_score_per_char |-> Rat(hl + nl, 2 * hl * nl)] :
        l \in LevelInputs,
        hl \in 2..MaxCharItem, nl \in 2..MaxCharItem}

InitChar ==
    /\ ScoreOff
    /\ PoolInit
    /\ cpu_count = Cardinality(Callers)
    /\ CtorOff
    /\ char_ctx \in CtxInputs
    /\ char_prev \in CharInputs
    /\ char_current \in CharInputs
    /\ char_distance \in 2..MaxDistance
    /\ char_score = Zero
    /\ pc_char = "call"
    /\ RankOff
    /\ GenOff

\* calc_score_for_char runs from line 171 to its return at line 185.
CharCall ==
    /\ pc_char = "call"
    /\ char_score' = calc_score_for_char(char_ctx, char_prev, char_current, char_distance)
    /\ pc_char' = "done"
    /\ UNCHANGED <<char_ctx, char_prev, char_current, char_distance>>
    /\ UNCHANGED <<score_vars, pool_vars, cpu_count, ctor_vars, rank_vars, gen_vars>>

NextChar == CharCall

SpecChar == InitChar /\ [][NextChar]_vars

(***************************************************************************)
(* One run of the ranking lines 140-145 (specification SpecRank).          *)
(***************************************************************************)
MaxRankLen == 3

\* The candidates: two strings, so that a list can hold one more than once.
RankStrings == {<<A>>, <<B>>}

\* The scores of the merged table: zero and two values above it.
RankScores == {Zero, <<1, 2>>, <<1, 1>>}

\* The tables for n candidates; the positions of a candidate name its index.
RankTables(n) ==
    {[i \in 0..n - 1 |-> [score |-> f[i], positions |-> <<i>>]] :
        f \in [0..n - 1 -> RankScores]}

RankLimits == {NoLimit} \cup {[given |-> TRUE, k |-> k] : k \in 0..MaxRankLen}

InitRank ==
    /\ ScoreOff
    /\ PoolInit
    /\ cpu_count = Cardinality(Callers)
    /\ CtorOff
    /\ CharOff
    /\ GenOff
    /\ rank_items \in SeqsUpTo(RankStrings, MaxRankLen)
    /\ rank_table \in RankTables(Len(rank_items))
    /\ rank_limit \in RankLimits
    /\ rank_value = <<>>
    /\ pc_rank = "call"

\* Lines 140-145 run from the sort to the return.
RankCall ==
    /\ pc_rank = "call"
    /\ rank_value' = Rank(rank_items, rank_table, rank_limit)
    /\ pc_rank' = "done"
    /\ UNCHANGED <<rank_items, rank_table, rank_limit>>
    /\ UNCHANGED <<score_vars, pool_vars, cpu_count, ctor_vars, char_vars, gen_vars>>

NextRank == RankCall

SpecRank == InitRank /\ [][NextRank]_vars

(***************************************************************************)
(* One PyScorer object and the generators made from it (specification      *)
(* SpecGen).  A generator is iterated by one thread from its first         *)
(* candidate on, and process_item returns before the generator yields.     *)
(***************************************************************************)
MaxPartition == 3
MaxGenCalls == 2

GenStrings == {<<A>>, <<A, B>>, <<B, A>>}
GenPartitions == SeqsUpTo(GenStrings, MaxPartition) \ {<<>>}
GenQueries == {<<>>, <<A>>, <<B>>, <<A, B>>}

\* Variant of line 250 that keeps the memo table of the candidate before.
KeptMemory(mem) == mem

\* Line 250: self.memory = {}.
FreshMemory(mem) == [k \in {} |-> Zero]

\* Lines 249-251 for one candidate: the scorer's fields when the generator
\* yields, and the pair it yields.
ScoreItem(mem, item, n) ==
    LET ctx == DefaultCtx(item, n)
        st == RunStack(ctx, item, n, [StartState(n) EXCEPT !.memory = FreshMemory(mem)])
    IN  [max_score_per_char |-> ctx.max_score_per_char,
         memory |-> st.memory,
         val |-> [score |-> st.final_score, positions |-> st.final_positions]]

\* PyScorer.__init__ (lines 241-245) and the first scorer(query).
InitGen ==
    /\ ScoreOff
    /\ PoolInit
    /\ cpu_count = Cardinality(Callers)
    /\ CtorOff
    /\ CharOff
    /\ RankOff
    /\ gen_items \in GenPartitions
    /\ gen_needle \in GenQueries
    /\ gen_done = 0
    /\ gen_memory = <<>>
    /\ gen_max = Zero
    /\ gen_vals = <<>>
    /\ gen_calls = 1
    /\ pc_gen = "run"

\* Lines 248-251: the generator is resumed and yields the next pair.
GenNext ==
    /\ pc_gen = "run"
    /\ gen_done < Len(gen_items)
    /\ gen_needle # <<>>
    /\ LET r == ScoreItem(gen_memory, gen_items[gen_done + 1], gen_needle)
       IN  /\ gen_max' = r.max_score_per_char
           /\ gen_memory' = r.memory
           /\ gen_vals' = Append(gen_vals, r.val)
    /\ gen_done' = gen_done + 1
    /\ UNCHANGED <<gen_items, gen_needle, gen_calls, pc_gen>>
    /\ UNCHANGED <<score_vars, pool_vars, cpu_count, ctor_vars, char_vars, rank_vars>>

\* Line 249 for the empty query: 1.0 / len(needle) raises ZeroDivisionError.
GenRaise ==
    /\ pc_gen = "run"
    /\ gen_done < Len(gen_items)
    /\ gen_needle = <<>>
    /\ pc_gen' = "raised"
    /\ UNCHANGED <<gen_items, gen_needle, gen_done, gen_memory, gen_max, gen_vals, gen_calls>>
    /\ UNCHANGED <<score_vars, pool_vars, cpu_count, ctor_vars, char_vars, rank_vars>>

\* Line 248: the for loop over self.items is exhausted.
GenStop ==
    /\ pc_gen = "run"
    /\ gen_done = Len(gen_items)
    /\ pc_gen' = "done"
    /\ UNCHANGED <<gen_items, gen_needle, gen_done, gen_memory, gen_max, gen_vals, gen_calls>>
    /\ UNCHANGED <<score_vars, pool_vars, cpu_count, ctor_vars, char_vars, rank_vars>>

\* Line 247 again: scorer(query) makes the next generator, iterated in place
\* of the last one, which has ended or was left at a yield (the loop of line
\* 131 ends when its body raises); the scorer's fields are what it left.
GenCall ==
    /\ pc_gen \in {"run", "done", "raised"}
    /\ gen_calls < MaxGenCalls
    /\ gen_calls' = gen_calls + 1
    /\ gen_needle' \in GenQueries
    /\ gen_done' = 0
    /\ gen_vals' = <<>>
    /\ pc_gen' = "run"
    /\ UNCHANGED <<gen_items, gen_memory, gen_max>>
    /\ UNCHANGED <<score_vars, pool_vars, cpu_count, ctor_vars, char_vars, rank_vars>>

NextGen == GenNext \/ GenRaise \/ GenStop \/ GenCall

SpecGen == InitGen /\ [][NextGen]_vars

(***************************************************************************)
(* The specification of the pool and the Matchers.                         *)
(***************************************************************************)
Init ==
    ScoreOff /\ PoolInit /\ cpu_count \in CpuCounts /\ CtorOff /\ CharOff /\ RankOff /\ GenOff

Next ==
    \/ Construct
    \/ \E w \in DOMAIN workers : WorkerGet(w)
    \/ \E w \in DOMAIN workers : WorkerPut(w)
    \/ \E t \in Callers : Acquire(t)
    \/ \E t \in Callers : Put(t)
    \/ \E t \in Callers : BeginCollect(t)
    \/ \E t \in Callers : Collect(t)
    \/ \E t \in Callers : Finish(t)

Spec == Init /\ [][Next]_vars

(***************************************************************************)
(* The pool up to and through process teardown, under fair scheduling      *)
(* (specification SpecLive).                                               *)
(***************************************************************************)
MaxLiveCalls == 2
MaxLiveMatchers == 1

\* Line 42: one of the callbacks the Workers registered with atexit runs and
\* puts the shutdown signal None on the request queue.  There is one callback
\* per Worker; they run one after the other while other threads go on.
AtExit ==
    /\ signals_sent < Len(workers)
    /\ requests' = Append(requests, NoJob)
    /\ signals_sent' = signals_sent + 1
    /\ UNCHANGED <<workers, results, wlock, matchers, pc, call, ret, ncalls, items_arg>>
    /\ UNCHANGED <<score_vars, cpu_count, ctor_vars, char_vars, rank_vars, gen_vars>>

NextLive ==
    \/ (Len(matchers) < MaxLiveMatchers /\ Construct)
    \/ \E w \in DOMAIN workers : WorkerGet(w)
    \/ \E w \in DOMAIN workers : WorkerPut(w)
    \/ \E t \in Callers : (ncalls < MaxLiveCalls /\ Acquire(t))
    \/ \E t \in Callers : Put(t)
    \/ \E t \in Callers : BeginCollect(t)
    \/ \E t \in Callers : Collect(t)
    \/ \E t \in Callers : Finish(t)
    \/ AtExit

\* The sizes the pool can have: max(1, cpu_count()).
PoolSizes == {IF n > 1 THEN n ELSE 1 : n \in CpuCounts}

WorkerIds == UNION {1..k : k \in PoolSizes}

\* The steps of NextLive that are steps of WorkerPut(w), Collect(t) and
\* Finish(t), told by the guard of the action and by what only that action
\* does: it frees worker w, takes the head of the result queue, ends the call
\* whose collection loop is over.  Each is enabled exactly when the action is.
WorkerPutStep(w) ==
    /\ workers[w].pc = "busy"
    /\ workers' = [workers EXCEPT ![w] = [pc |-> "idle", job |-> NoJob]]

CollectStep(t) ==
    /\ pc[t] = "collect"
    /\ call[t].num > 0
    /\ results # <<>>
    /\ results' = Tail(results)

FinishStep(t) ==
    /\ pc[t] = "collect"
    /\ call[t].num = 0
    /\ pc' = [pc EXCEPT ![t] = "idle"]

\* The scheduler runs every thread that can take a step: a Worker thread in
\* its loop, a thread inside a query call; once teardown has begun, every
\* registered callback runs.  Nothing obliges a thread to construct a Matcher,
\* to start a query or the process to exit.
Fairness ==
    /\ \A w \in WorkerIds : WF_vars(w \in DOMAIN workers /\ WorkerGet(w))
    /\ \A w \in WorkerIds : WF_workers(w \in DOMAIN workers /\ WorkerPutStep(w))
    /\ \A t \in Callers : WF_vars(Put(t))
    /\ \A t \in Callers : WF_vars(BeginCollect(t))
    /\ \A t \in Callers : WF_results(CollectStep(t))
    /\ \A t \in Callers : WF_pc(FinishStep(t))
    /\ WF_vars(signals_sent > 0 /\ AtExit)

SpecLive == Init /\ [][NextLive]_vars /\ Fairness

(***************************************************************************)
(* Properties of process_item, checked under SpecScore.                    *)
(***************************************************************************)
\* Every way of placing needle n in haystack h as an ordered subsequence, under
\* primary-strength equality: the 0-based offset of each needle character.
Alignments(h, n) ==
    {p \in [1..Len(n) -> 0..(Len(h) - 1)] :
        /\ \A i, j \in 1..Len(n) : i < j => p[i] < p[j]
        /\ \A i \in 1..Len(n) : PrimaryKey(h[p[i] + 1]) = PrimaryKey(n[i])}

\* The sum of the per-character scores of placement p from slot i on, the
\* previous match being at offset last (0 before the first match).
RECURSIVE AlignmentScore(_, _, _, _, _)
AlignmentScore(ctx, h, p, i, last) ==
    IF i > Len(p) THEN Zero
    ELSE LET distance == p[i] - last
             score_for_char ==
                 IF distance <= 1 THEN ctx.max_score_per_char
                 ELSE calc_score_for_char(ctx, h[p[i]], h[p[i] + 1], distance)
         IN  RAdd(score_for_char, AlignmentScore(ctx, h, p, i + 1, p[i]))

BestAlignmentScore(h, n) ==
    LET scores == {AlignmentScore(DefaultCtx(h, n), h, p, 1, 0) : p \in Alignments(h, n)}
    IN  IF scores = {} THEN Zero
        ELSE CHOOSE s \in scores : \A s2 \in scores : ~RLess(s, s2)

\* C2: process_item returns the maximum, over all placements of the needle as an
\* ordered subsequence of the haystack, of the sum of the per-character scores
\* (0 when there is no placement).
C2_ScoreIsBestAlignment ==
    pc_score = "done" => final_score = BestAlignmentScore(haystack, needle)

\* needle n from slot i on is a subsequence of haystack h from offset k on.
RECURSIVE IsSubsequenceFrom(_, _, _, _)
IsSubsequenceFrom(n, h, i, k) ==
    IF i > Len(n) THEN TRUE
    ELSE IF k > Len(h) THEN FALSE
    ELSE IF PrimaryKey(h[k]) = PrimaryKey(n[i]) THEN IsSubsequenceFrom(n, h, i + 1, k + 1)
    ELSE IsSubsequenceFrom(n, h, i, k + 1)

\* C3: for a non-empty query the score process_item returns is greater than 0
\* exactly when the query is a subsequence of the candidate under primary
\* equality; of the candidates im/one.gif, im/two.gif, text/one.html, query
\* "one" gives exactly the first and the third a non-zero score.
C3_PositiveIffSubsequence ==
    pc_score = "done" =>
        /\ (final_score # Zero) <=> IsSubsequenceFrom(needle, haystack, 1, 1)
        /\ ~RLess(final_score, Zero)
        /\ (needle = ExampleNeedle /\ haystack \in ExampleHaystacks) =>
              ((final_score # Zero) <=>
                  haystack # <<"i", "m", "/", "t", "w", "o", ".", "g", "i", "f">>)

\* C3 witness: the run on im/one.gif and "one" has ended with a positive score.
C3_Witness ==
    /\ pc_score = "done"
    /\ haystack = <<"i", "m", "/", "o", "n", "e", ".", "g", "i", "f">>
    /\ needle = ExampleNeedle
    /\ RLess(Zero, final_score)

(***************************************************************************)
(* Properties of the query call, checked under Spec.                       *)
(***************************************************************************)
RetMatcher == matchers[ret.m]

\* The score of candidate item for query q, and what a call on Matcher M with
\* query q and limit returns when its table holds these scores.
ScoreFor(item, q) == process_item(DefaultCtx(item, q), item, q)

ExpectedValue(M, q, limit) ==
    Rank(M.items, [i \in 0..(Len(M.items) - 1) |-> ScoreFor(M.items[i + 1], q)], limit)

\* Scoring raises for this Matcher and query (the empty query).
ScoringFails(M, q) == M.items # <<>> /\ q = <<>>

\* The score of returned candidate s for the query of the ended call, and the
\* first place of s in the construction input.
RetScore(s) == ScoreFor(s, ret.query).score

FirstIndexOf(s) ==
    CHOOSE i \in 1..Len(RetMatcher.items) :
        /\ RetMatcher.items[i] = s
        /\ \A j \in 1..(i - 1) : RetMatcher.items[j] # s

\* C1: the entries of a mapping returned by a call that completes without error
\* are in order of non-increasing score for the call's query, and entries of
\* equal score are in the order of the construction input.
C1_RankedStable ==
    (ret.kind = "returned" /\ ~ScoringFails(RetMatcher, ret.query)) =>
        \A a, b \in 1..Len(ret.value) :
            a < b =>
                /\ ~RLess(RetScore(ret.value[a][1]), RetScore(ret.value[b][1]))
                /\ RetScore(ret.value[a][1]) = RetScore(ret.value[b][1])
                      => FirstIndexOf(ret.value[a][1]) < FirstIndexOf(ret.value[b][1])

\* C4: a call without limit returns exactly the candidates whose score for the
\* call's query is not 0.
C4_NonZeroExactly ==
    (ret.kind = "returned" /\ ~ret.limit.given /\ ~ScoringFails(RetMatcher, ret.query)) =>
        {ret.value[k][1] : k \in 1..Len(ret.value)}
            = {RetMatcher.items[i] : i \in {j \in 1..Len(RetMatcher.items) :
                                              RetScore(RetMatcher.items[j]) # Zero}}

\* C5: the outcome of a query call is determined by the candidate list and the
\* query (and limit), whatever the scheduling of the workers and whatever calls
\* came before: a call whose scoring does not fail returns the ranking of its
\* own candidates for its own query.
C5_Deterministic ==
    (ret.kind # "none" /\ ~ScoringFails(RetMatcher, ret.query)) =>
        /\ ret.kind = "returned"
        /\ ret.value = ExpectedValue(RetMatcher, ret.query, ret.limit)

\* C6: every result a query call dequeues comes from a job this call enqueued.
C6_OwnResultsOnly ==
    /\ \A t \in Callers : \A k \in 1..Len(call[t].got) : call[t].got[k] = call[t].id
    /\ \A k \in 1..Len(ret.got) : ret.got[k] = ret.id

\* C7: the scoring of a partition runs in the worker, which reports an exception
\* of the scoring as a failed result; the calling thread never gets the
\* exception itself while it iterates a result.
C7_ScoringErrorsCaughtAtWorker ==
    ~(ret.kind = "raised" /\ ret.exc = "ZeroDivisionError")

\* Jobs and results of call id that are still in the pool.
Leftovers(id) ==
    {k \in 1..Len(requests) : ~requests[k].none /\ requests[k].call = id}
    \cup {100 + k : k \in {j \in 1..Len(results) : results[j].call = id}}
    \cup {200 + w : w \in {v \in DOMAIN workers : workers[v].pc = "busy" /\ workers[v].job.call = id}}

\* C8: a call in which scoring failed has dequeued one result per dispatched
\* partition before it raises, and leaves no result of its own behind.
C8_DrainedBeforeRaise ==
    (ret.kind \in {"raised", "failed"} /\ ScoringFails(RetMatcher, ret.query)) =>
        /\ Len(ret.got) = Len(RetMatcher.scorers)
        /\ Leftovers(ret.id) = {}

\* C9: whenever the lock is free the request queue holds no job and the result
\* queue no result of an earlier query.
C9_QueuesCleanWhenLockFree ==
    wlock = "free" =>
        /\ \A k \in 1..Len(requests) : requests[k].none
        /\ results = <<>>

\* C10: a thread holds the lock only inside a query call; when the call has
\* returned or raised, the lock is no longer held by it.
C10_LockReleasedOnExit ==
    /\ \A t \in Callers : pc[t] = "idle" => wlock # t
    /\ (\A t \in Callers : pc[t] = "idle") => wlock = "free"

\* C10 witness: a call has ended by an exception raised inside the with block,
\* and the lock is free.
C10_Witness ==
    /\ ret.kind = "raised"
    /\ ret.exc = "ZeroDivisionError"
    /\ wlock = "free"

(***************************************************************************)
(* Properties of split and of Matcher.__init__, checked under SpecInit.    *)
(***************************************************************************)
\* split has returned.
SplitDone == ctor_pc \in {"scorers", "done", "raised"}

\* The batches of ans one after the other.
RECURSIVE Flatten(_)
Flatten(ans) == IF ans = <<>> THEN <<>> ELSE Head(ans) \o Flatten(Tail(ans))

\* The least k with k * b >= a, for a >= 0 and b >= 1.
CeilOf(a, b) == CHOOSE k \in 0..a : k * b >= a /\ (k = 0 \/ (k - 1) * b < a)

\* C13: split returns at most pool_size batches; their concatenation is the
\* original list in order, each element paired with its index in that list;
\* every batch but the last has ceil(N / pool_size) elements; the task maps
\* built from the batches are together a bijection onto 0..N-1.
C13_SplitPartitions ==
    SplitDone =>
        /\ Len(split_ans) <= Len(workers)
        /\ Flatten(split_ans) = [i \in 1..Len(self.items) |-> <<i - 1, self.items[i]>>]
        /\ \A t \in 1..(Len(split_ans) - 1) :
              Len(split_ans[t]) = CeilOf(Len(self.items), Len(workers))
        /\ \A i \in 0..(Len(self.items) - 1) :
              Cardinality({tj \in {<<t, j>> : t \in 1..Len(self.task_maps), j \in 1..MaxItems} :
                              /\ tj[2] <= Len(self.task_maps[tj[1]])
                              /\ self.task_maps[tj[1]][tj[2]] = i}) = 1
        /\ \A t \in 1..Len(self.task_maps) : \A j \in 1..Len(self.task_maps[t]) :
              self.task_maps[t][j] \in 0..(Len(self.items) - 1)
        /\ split_ans = split(self.items, Len(workers))

\* C13 witness: split returned two batches, the last one shorter than the first.
C13_Witness ==
    /\ ctor_pc = "done"
    /\ Len(split_ans) = 2
    /\ Len(split_ans[2]) < Len(split_ans[1])
    /\ Len(self.task_maps) = 2

\* C14 as stated: the number of partitions equals the number of workers W
\* whenever the candidate count N is at least W.
C14_PartitionsEqualWorkers ==
    SplitDone =>
        (Len(self.items) >= Len(workers) => Len(split_ans) = Len(workers))

\* C14 amended: the number of partitions, and so of scorers, is
\* ceil(N / ceil(N / W)), 0 for N = 0; it is never greater than W, and it is
\* smaller than W for some N >= W as well as for N < W.
C14_PartitionCount ==
    /\ SplitDone =>
          /\ Len(split_ans) = IF self.items = <<>> THEN 0
                              ELSE CeilOf(Len(self.items),
                                          CeilOf(Len(self.items), Len(workers)))
          /\ Len(split_ans) <= Len(workers)
          /\ Len(self.task_maps) = Len(split_ans)
    /\ ctor_pc = "done" => Len(self.scorers) = Len(split_ans)

\* C14 witness: four candidates and three workers give two partitions.
C14_Witness ==
    /\ ctor_pc = "done"
    /\ Len(self.items) = 4
    /\ Len(workers) = 3
    /\ Len(self.scorers) = 2

\* What a scorer with the level sets of the construction arguments yields for
\* the strings of scorer sc and needle q.
ValsWithLevels(sc, q) ==
    [j \in 1..Len(sc.items) |->
        process_item(Ctx(ctor_args.level1, ctor_args.level2, ctor_args.level3,
                         sc.items[j], q),
                     sc.items[j], q)]

\* C19: the level sets passed to Matcher construction are the sets its scorers
\* use, so the scores they yield are those of the passed sets.
C19_LevelsReachScorers ==
    ctor_pc = "done" =>
        \A t \in 1..Len(self.scorers) :
            /\ self.scorers[t].level1 = ctor_args.level1
            /\ self.scorers[t].level2 = ctor_args.level2
            /\ self.scorers[t].level3 = ctor_args.level3
            /\ ScorerVals(self.scorers[t], <<"a", "b">>)
                  = ValsWithLevels(self.scorers[t], <<"a", "b">>)

\* C20: when the extension module cannot be loaded, construction with the
\* default scorer factory succeeds and every task gets a PyScorer.
C20_FallbackToPyScorer ==
    (ctor_args.scorer = "None" /\ ~extension_loads) =>
        /\ ctor_pc # "raised"
        /\ ctor_exc = ""
        /\ ctor_pc = "done" =>
              \A t \in 1..Len(self.scorers) : self.scorers[t].kind = "PyScorer"

(***************************************************************************)
(* Further properties of the pool and the query call, checked under Spec.  *)
(***************************************************************************)
\* C11: a call one of whose partitions reported failure returns no mapping: no
\* failed result of a call that returned is in the result queue, dequeued or not.
C11_NoMappingAfterFailure ==
    /\ ret.kind = "returned" => \A k \in 1..Len(results) :
                                    results[k].call = ret.id => results[k].ok
    /\ \A t \in Callers : call[t].error.set => pc[t] = "collect"

\* C12: once a Matcher has been constructed the worker list holds exactly
\* max(1, cpu_count()) workers, and no step adds, removes or replaces a worker
\* of a populated list.
C12_FixedPool ==
    /\ [](/\ matchers # <<>> => workers # <<>>
          /\ workers # <<>> => Len(workers) = IF cpu_count > 1 THEN cpu_count ELSE 1)
    /\ [][workers # <<>> => DOMAIN workers' = DOMAIN workers]_vars

\* C12 witness: two Matchers have been constructed where cpu_count() is 0, and
\* there is one worker.
C12_Witness ==
    /\ Len(matchers) >= 2
    /\ cpu_count = 0
    /\ Len(workers) = 1

\* Candidate i of items comes before candidate j in the list sorted by
\* descending score with ties in input order, sc[i] being the score of items[i].
Precedes(sc, i, j) == RLess(sc[j], sc[i]) \/ (sc[i] = sc[j] /\ i < j)

\* The place (from 0) of candidate i in that list, and the number of candidates
\* with a non-zero score.
PlaceOf(sc, i) == Cardinality({j \in DOMAIN sc : Precedes(sc, j, i)})

NonZeroCount(sc) == Cardinality({i \in DOMAIN sc : sc[i] # Zero})

\* The scores of the candidates of the ended call for its query, and the scores
\* the call collected, both indexed from 1.
TrueScores(items, q) == [i \in 1..Len(items) |-> ScoreFor(items[i], q).score]

CollectedScores == [i \in 1..Len(RetMatcher.items) |-> ret.table[i - 1].score]

\* C15: a call with limit=k returns at most k entries, and they are exactly the
\* candidates with a non-zero score for the query among the first k of the list
\* sorted by descending score (stable).
C15_LimitThenFilter ==
    (ret.kind = "returned" /\ ret.limit.given /\ ~ScoringFails(RetMatcher, ret.query)) =>
        /\ Len(ret.value) <= ret.limit.k
        /\ {ret.value[n][1] : n \in 1..Len(ret.value)}
              = {RetMatcher.items[i] :
                    i \in {j \in 1..Len(RetMatcher.items) :
                              /\ PlaceOf(TrueScores(RetMatcher.items, ret.query), j)
                                    < ret.limit.k
                              /\ ScoreFor(RetMatcher.items[j], ret.query).score # Zero}}

\* The candidate lists over which C16 is stated: the lists of up to
\* MaxRankItems strings, and the lists of the Matchers constructed so far.
MaxRankItems == 3
RankLists ==
    (SeqsUpTo({<<A>>, <<B>>, <<A, B>>}, MaxRankItems) \ {<<>>})
        \cup {matchers[m].items : m \in 1..Len(matchers)}

\* C16 as stated: for some candidate list, query and k a zero-score candidate is
\* among the first k of the sorted list, and the call with limit=k returns fewer
\* than k entries although more than k candidates have a non-zero score.
C16_ZeroCrowdsOutNonZero ==
    \E l \in RankLists, q \in Queries \ {<<>>}, k \in 0..MaxRankItems :
        /\ Len(ExpectedValue([items |-> l], q, [given |-> TRUE, k |-> k])) < k
        /\ NonZeroCount(TrueScores(l, q)) > k
        /\ \E i \in 1..Len(l) : /\ TrueScores(l, q)[i] = Zero
                                /\ PlaceOf(TrueScores(l, q), i) < k

\* C16 amended: zero-score candidates sort after all others and never take the
\* place of a non-zero one; for pairwise distinct candidates a call with limit=k
\* returns min(k, number of candidates with a non-zero collected score) entries.
C16_LimitKeepsNonZero ==
    (/\ ret.kind = "returned"
     /\ ret.limit.given
     /\ \A i, j \in 1..Len(RetMatcher.items) :
           i # j => RetMatcher.items[i] # RetMatcher.items[j]) =>
        Len(ret.value) = IF ret.limit.k < NonZeroCount(CollectedScores)
                         THEN ret.limit.k
                         ELSE NonZeroCount(CollectedScores)

\* C16 witness: a call with limit 1 returned one entry for a list in which a
\* zero-score candidate stands before a non-zero one in the input.
C16_Witness ==
    /\ ret.kind = "returned"
    /\ ret.limit.given
    /\ ret.limit.k = 1
    /\ Len(ret.value) = 1
    /\ \E i, j \in 1..Len(RetMatcher.items) :
          i < j /\ CollectedScores[i] = Zero /\ CollectedScores[j] # Zero

\* C17: when the query equals a candidate, that candidate gets the full score
\* for every query character and positions 0, 1, ..., n-1; a call without limit
\* returns it, preceded only by candidates of equal score that come earlier in
\* the input.
C17_ExactMatchFirst ==
    (/\ ret.kind = "returned"
     /\ ~ret.limit.given
     /\ ret.query # <<>>
     /\ \E i \in 1..Len(RetMatcher.items) : RetMatcher.items[i] = ret.query) =>
        /\ ScoreFor(ret.query, ret.query)
              = [score |-> RMul(<<Len(ret.query), 1>>,
                                max_score_per_char(ret.query, ret.query)),
                 positions |-> [j \in 1..Len(ret.query) |-> j - 1]]
        /\ \E n \in 1..Len(ret.value) :
              /\ ret.value[n][1] = ret.query
              /\ ret.value[n][2] = [j \in 1..Len(ret.query) |-> j - 1]
              /\ \A p \in 1..(n - 1) :
                    /\ RetScore(ret.value[p][1]) = RetScore(ret.query)
                    /\ FirstIndexOf(ret.value[p][1]) < FirstIndexOf(ret.query)

\* C18: every positions sequence of a returned mapping has as many slots as the
\* query has characters.
C18_PositionsLength ==
    ret.kind = "returned" =>
        \A n \in 1..Len(ret.value) : Len(ret.value[n][2]) = Len(ret.query)

(***************************************************************************)
(* Properties of calc_score_for_char, checked under SpecChar.              *)
(***************************************************************************)
IsLowercaseLetter(c) == \E k \in DOMAIN LowerLetters : LowerLetters[k] = c

IsUppercaseLetter(c) == \E k \in DOMAIN UpperLetters : UpperLetters[k] = c

\* factor x max_score_per_char, the factor given as a fraction.
Scaled(ctx, num, den) == RMul(ctx.max_score_per_char, Rat(num, den))

InNoLevel(ctx, c) == c \notin ctx.level1 \cup ctx.level2 \cup ctx.level3

\* C23: a match at distance > 1 whose preceding character is a level-3
\* separator, and no level-1 or level-2 separator, scores 0.7 x
\* max_score_per_char whatever the matched character is.
C23_Level3Factor ==
    (/\ pc_char = "done"
     /\ char_distance > 1
     /\ char_prev \in char_ctx.level3
     /\ char_prev \notin char_ctx.level1 \cup char_ctx.level2)
    => char_score = Scaled(char_ctx, 7, 10)

\* C24: a match at distance > 1 whose preceding character is in no level set
\* scores 0.8 x max_score_per_char only when the preceding character is a
\* lowercase letter and the matched one an uppercase letter, and
\* (1/distance) x 0.75 x max_score_per_char in every other case.
C24_CamelCaseOnlyForLetters ==
    (/\ pc_char = "done"
     /\ char_distance > 1
     /\ InNoLevel(char_ctx, char_prev))
    => char_score = IF IsLowercaseLetter(char_prev) /\ IsUppercaseLetter(char_current)
                    THEN Scaled(char_ctx, 8, 10)
                    ELSE Scaled(char_ctx, 3, 4 * char_distance)

\* The boundary a matched character sits on: 1 after a level-1 separator, 2
\* after a level-2 separator or on a lowercase-to-uppercase transition, 3
\* after a level-3 separator, 4 on no boundary.
BoundaryRank(ctx, prev, current) ==
    IF prev \in ctx.level1 THEN 1
    ELSE IF prev \in ctx.level2 \/ (IsLowercaseLetter(prev) /\ IsUppercaseLetter(current))
    THEN 2
    ELSE IF prev \in ctx.level3 THEN 3
    ELSE 4

\* C25: at one distance > 1 and for matched characters that match the same
\* query character, the score on a stronger boundary is at least the score on
\* a weaker one: level 1 >= level 2 or camelCase >= level 3 >= no boundary.
C25_BoundaryOrder ==
    (pc_char = "done" /\ char_distance > 1)
    => \A prev \in CharInputs, current \in CharInputs :
          (/\ PrimaryKey(current) = PrimaryKey(char_current)
           /\ BoundaryRank(char_ctx, char_prev, char_current)
                  <= BoundaryRank(char_ctx, prev, current))
          => ~RLess(char_score,
                    calc_score_for_char(char_ctx, prev, current, char_distance))

(***************************************************************************)
(* process_item with the memo lookups disabled, checked under SpecScore.   *)
(***************************************************************************)
\* One iteration of the while loop in which the lookup of line 196 finds
\* nothing: the loop of lines 198-216 runs from the popped state.
PopStepWithoutMemo(ctx, h, n, st) ==
    PopStep(ctx, h, n, [st EXCEPT !.memory = [k \in {} |-> Zero]])

RECURSIVE RunStackWithoutMemo(_, _, _, _)
RunStackWithoutMemo(ctx, h, n, st) ==
    IF st.stack = <<>> THEN st
    ELSE RunStackWithoutMemo(ctx, h, n, PopStepWithoutMemo(ctx, h, n, st))

ScoreWithoutMemo(ctx, h, n) == RunStackWithoutMemo(ctx, h, n, StartState(n)).final_score

\* C26: the score process_item returns with the memo table equals the score
\* the same stack search returns when every memo lookup misses.
C26_MemoKeepsScore ==
    pc_score = "done"
    => final_score = ScoreWithoutMemo(DefaultCtx(haystack, needle), haystack, needle)

(***************************************************************************)
(* Matchers without candidates, checked under Spec.                        *)
(***************************************************************************)
\* The jobs of call id that are in the request queue or with a worker.
JobsOf(id) ==
    {k \in DOMAIN requests : requests[k].call = id}
        \cup {w \in DOMAIN workers : workers[w].pc = "busy" /\ workers[w].job.call = id}

\* C21: a Matcher constructed from a sequence without valid entries has no
\* candidates, partitions or scorers; a query call on it enqueues no job,
\* takes nothing from the result queue, and returns the empty mapping.
C21_EmptyMatcherCalls ==
    /\ \A m \in DOMAIN matchers :
          (\A k \in DOMAIN items_arg[m] : items_arg[m][k] = <<>>)
          => matchers[m].items = <<>> /\ matchers[m].scorers = <<>>
                /\ matchers[m].task_maps = <<>>
    /\ \A t \in Callers :
          (pc[t] # "idle" /\ matchers[call[t].m].items = <<>>)
          => call[t].got = <<>> /\ JobsOf(call[t].id) = {}
    /\ (ret.kind # "none" /\ RetMatcher.items = <<>>)
          => /\ ret.kind = "returned"
             /\ ret.value = <<>>
             /\ ret.got = <<>>
             /\ JobsOf(ret.id) = {}
             /\ \A k \in DOMAIN results : results[k].call # ret.id

\* A call on a Matcher without candidates has returned while results of
\* earlier calls wait in the result queue.
C21_Witness ==
    /\ ret.kind = "returned"
    /\ RetMatcher.items = <<>>
    /\ items_arg[ret.m] = << <<>> >>
    /\ results # <<>>

(***************************************************************************)
(* The candidates of a Matcher, checked under Spec.                        *)
(***************************************************************************)
\* The places of the valid entries of the items argument raw.
ValidPlaces(raw) == {k \in DOMAIN raw : raw[k] # <<>>}

\* The place in raw of its i-th valid entry, i counted from 1.
NthValidPlace(raw, i) ==
    CHOOSE k \in ValidPlaces(raw) : Cardinality({j \in ValidPlaces(raw) : j <= k}) = i

\* The candidates, the partitions and the scorers of every Matcher.
Partitioning ==
    [m \in DOMAIN matchers |->
        <<matchers[m].items, matchers[m].task_maps, matchers[m].scorers>>]

CollectedAll(t) == pc[t] = "collect" /\ call[t].num = 0 /\ ~call[t].error.set

\* C28: when the collection loop ends without error the table holds a pair
\* for exactly the indices 0..N-1, and the pair at the index task map p gives
\* for local position j is the one the scorer of partition p computes for its
\* j-th candidate and the call's query.
C28_TableFromOwnPartitions ==
    \A t \in Callers :
        CollectedAll(t) =>
            LET M == matchers[call[t].m]
            IN  /\ ~ScoringFails(M, call[t].query)
                /\ DOMAIN call[t].table = 0..(Len(M.items) - 1)
                /\ \A p \in DOMAIN M.task_maps :
                      \A j \in DOMAIN M.task_maps[p] :
                          call[t].table[M.task_maps[p][j]]
                              = ScorerVals(M.scorers[p], call[t].query)[j]

\* Thread t dequeues a result in this step and stays in the collection loop.
Dequeues(t) ==
    /\ pc[t] = "collect"
    /\ pc'[t] = "collect"
    /\ Len(call'[t].got) = Len(call[t].got) + 1

\* C29: each failure result a call dequeues replaces the message kept so far,
\* a successful result leaves it, and a call that has dequeued a failure
\* result ends by raising the one aggregated error, which carries the message
\* of the failure dequeued last.
C29_LastFailureRaised ==
    [][\A t \in Callers :
          /\ Dequeues(t) =>
                call'[t].error = IF Head(results).ok THEN call[t].error
                                 ELSE [set |-> TRUE, msg |-> Head(results).err]
          /\ (pc[t] = "collect" /\ call[t].error.set /\ pc'[t] = "idle") =>
                /\ ret'.kind = "failed"
                /\ ret'.exc = "Exception"
                /\ ret'.msg = call[t].error.msg]_vars

(***************************************************************************)
(* Progress of the calls and the workers, checked under SpecLive.          *)
(***************************************************************************)
\* Every registered atexit callback has run.
TeardownDone == workers # <<>> /\ signals_sent = Len(workers)

SignalsQueued == Cardinality({k \in DOMAIN requests : requests[k].none})

Exited == {w \in DOMAIN workers : workers[w].pc = "exited"}

\* As long as no shutdown signal has been enqueued, a running call ends and a
\* held lock is released again.
CallsEnd ==
    /\ \A t \in Callers :
          (pc[t] # "idle" /\ signals_sent = 0) ~> (pc[t] = "idle" \/ signals_sent > 0)
    /\ (wlock # "free" /\ signals_sent = 0) ~> (wlock = "free" \/ signals_sent > 0)

\* C27: as long as no shutdown signal has been enqueued, a held lock is
\* released again and a running call ends; a worker that ran a job has put
\* exactly one result for it; and a call that has ended has dequeued exactly
\* one result per partition it dispatched.
C27_CallsComplete ==
    /\ CallsEnd
    /\ [][\A w \in DOMAIN workers :
            (workers[w].pc = "busy" /\ workers'[w].pc # "busy")
            => /\ Len(results') = Len(results) + 1
               /\ results'[Len(results')].call = workers[w].job.call
               /\ results'[Len(results')].i = workers[w].job.i]_vars
    /\ []((ret.kind # "none" /\ signals_sent = 0)
            => Len(ret.got) = Len(RetMatcher.scorers))

\* C30: a worker ends only in a step in which it dequeues a shutdown signal;
\* no more signals are enqueued than there are workers and every signal
\* dequeued ended one worker; once all signals are enqueued every worker
\* eventually ends; and a job a worker takes after that still has a signal
\* behind it, so a job behind all the signals is never taken.
C30_WorkersExitOnSignal ==
    /\ [][\A w \in DOMAIN workers :
            (workers[w].pc # "exited" /\ workers'[w].pc = "exited")
            => /\ requests # <<>>
               /\ Head(requests).none
               /\ requests' = Tail(requests)]_vars
    /\ [](/\ signals_sent <= Len(workers)
          /\ SignalsQueued + Cardinality(Exited) = signals_sent)
    /\ TeardownDone ~> (Exited = DOMAIN workers)
    /\ [][\A w \in DOMAIN workers :
            (TeardownDone /\ workers[w].pc = "idle" /\ workers'[w].pc = "busy")
            => \E k \in 2..Len(requests) : requests[k].none]_vars

\* Every worker has ended and a job enqueued behind the signals is still in
\* the request queue.
C30_Witness ==
    /\ TeardownDone
    /\ Exited = DOMAIN workers
    /\ Len(workers) > 1
    /\ \E k \in DOMAIN requests : ~requests[k].none

(***************************************************************************)
(* The work stack and the per-character scores of process_item, checked    *)
(* under SpecScore.                                                        *)
(***************************************************************************)
Pow2(k) == IF k <= 0 THEN 1 ELSE 2 ^ k

\* What is left to search: every state on the stack weighs 2 ^ (haystack
\* characters at or after its offset).
RECURSIVE StackWeight(_, _)
StackWeight(stk, hlen) ==
    IF stk = <<>> THEN 0
    ELSE Pow2(hlen - Head(stk).hidx) + StackWeight(Tail(stk), hlen)

\* The loop of lines 198-216 run from the state on top of the stack.
TopRun ==
    LET top == stack[Len(stack)]
    IN  ForLoop(DefaultCtx(haystack, needle), haystack, needle, top.nidx, top.hidx,
                top.last_idx, top.score, top.positions, <<>>)

\* C37: every state pushed has a haystack offset strictly larger than the
\* state it is pushed from and no larger than len(haystack), so every
\* iteration of the while loop lessens what is left to search, which is never
\* negative: the loop ends.
C37_StackEmpties ==
    [][(pc_score = "run" /\ stack # <<>>)
        => /\ \A k \in DOMAIN TopRun.pushed :
                 /\ TopRun.pushed[k].hidx > stack[Len(stack)].hidx
                 /\ TopRun.pushed[k].hidx <= Len(haystack)
           /\ StackWeight(stack', Len(haystack)) < StackWeight(stack, Len(haystack))
           /\ StackWeight(stack', Len(haystack)) >= 0]_vars

\* A run has ended whose stack held several states at once.
C37_Witness ==
    /\ pc_score = "done"
    /\ stack = <<>>
    /\ Cardinality(DOMAIN memory) > Len(needle)

\* The loop of lines 198-216 runs for the state on top of the stack: its key
\* is not in the memo table (line 197).
TopLoops ==
    /\ pc_score = "run"
    /\ stack # <<>>
    /\ ~MemoHit(memory, <<stack[Len(stack)].hidx, stack[Len(stack)].nidx,
                          stack[Len(stack)].last_idx>>)

\* The query characters the loop run from the top state finds a match for.
TopMatched == {i \in stack[Len(stack)].nidx + 1 .. Len(needle) : TopRun.positions[i] # -1}

\* Line 209: the distance of the match of query character i.
TopDistance(i) ==
    TopRun.positions[i]
        - (IF i = stack[Len(stack)].nidx + 1 THEN stack[Len(stack)].last_idx
           ELSE TopRun.positions[i - 1])

\* C40: the distance of a match from the previous match is never negative,
\* and a match for which calc_score_for_char is called (distance > 1) is at
\* offset >= 1, so haystack[pos - 1] is the character before the match.
C40_PrecedingCharIsReal ==
    TopLoops =>
        \A i \in TopMatched :
            /\ TopDistance(i) >= 0
            /\ TopDistance(i) > 1 => TopRun.positions[i] >= 1

\* A run has returned an alignment whose first match is at offset >= 2, so
\* calc_score_for_char was called for it with distance >= 2.
C40_Witness ==
    /\ pc_score = "done"
    /\ RLess(Zero, final_score)
    /\ final_positions[1] >= 2

\* x <= y
RLeq(x, y) == ~RLess(y, x)

\* The score after each query character the loop run from the top state has
\* scored, the score it started from first.
TopScores ==
    LET before == [k \in DOMAIN TopRun.pushed |-> TopRun.pushed[k].score]
    IN  IF TopRun.score = Zero THEN before ELSE Append(before, TopRun.score)

MaxTimes(k) == RMul(Rat(k, 1), max_score_per_char(haystack, needle))

\* C39: every per-character score is greater than 0 and at most
\* max_score_per_char, every score of an alignment (in the memo table or
\* returned) lies between 0 and len(query) * max_score_per_char, and that is
\* at most 1 when the query is a subsequence of the candidate.
C39_ScoresBounded ==
    /\ TopLoops =>
          \A k \in 1 .. Len(TopScores) - 1 :
              /\ RLess(TopScores[k], TopScores[k + 1])
              /\ RLeq(TopScores[k + 1],
                      RAdd(TopScores[k], max_score_per_char(haystack, needle)))
    /\ pc_score # "off" =>
          /\ \A key \in DOMAIN memory :
                 /\ RLeq(Zero, memory[key].score)
                 /\ RLeq(memory[key].score, MaxTimes(Len(needle)))
          /\ RLeq(Zero, final_score)
          /\ RLeq(final_score, MaxTimes(Len(needle)))
          /\ IsSubsequenceFrom(needle, haystack, 1, 1)
                 => RLeq(MaxTimes(Len(needle)), Rat(1, 1))

\* A returned score made of one adjacent and one distant match.
C39_Witness ==
    /\ pc_score = "done"
    /\ Len(needle) = 2
    /\ RLess(Zero, final_score)
    /\ RLess(final_score, MaxTimes(2))

(***************************************************************************)
(* The ranking lines 140-145, checked under SpecRank.                      *)
(***************************************************************************)
RankTriples ==
    [i \in 1..Len(rank_items) |->
        [score |-> rank_table[i - 1].score, item |-> rank_items[i],
         positions |-> rank_table[i - 1].positions]]

PairsOf(top) == [k \in 1..Len(top) |-> <<top[k].item, top[k].positions>>]

\* C36: for every limit k >= 0 the mapping returned, made by truncating the
\* sorted list to k entries and then dropping the zero scores, is the mapping
\* made by dropping the zero scores first and truncating to k afterwards; in
\* the sorted list no zero score stands before a non-zero one.
C36_TruncateFilterCommute ==
    (pc_rank = "done" /\ rank_limit.given) =>
        /\ rank_value = OrderedDict(PairsOf(Truncate(Filter(sorted(RankTriples)),
                                                     rank_limit)), <<>>)
        /\ \A i, j \in 1..Len(rank_items) :
               (i < j /\ sorted(RankTriples)[i].score = Zero)
                   => sorted(RankTriples)[j].score = Zero

\* A call with limit 1 has returned one entry from a list in which a zero
\* score stands before two non-zero ones.
C36_Witness ==
    /\ pc_rank = "done"
    /\ rank_limit = [given |-> TRUE, k |-> 1]
    /\ Len(rank_items) = 3
    /\ rank_table[0].score = Zero
    /\ rank_table[1].score # Zero
    /\ rank_table[2].score # Zero
    /\ Len(rank_value) = 1

\* The kept candidates: the first k of the sorted list without the zero scores.
RankKept == Filter(Truncate(sorted(RankTriples), rank_limit))

\* The rank of the earliest-ranked kept occurrence of a string.
EarliestRank(str) ==
    CHOOSE k \in 1..Len(RankKept) :
        /\ RankKept[k].item = str
        /\ \A j \in 1..k - 1 : RankKept[j].item # str

\* C38: the mapping returned has one entry for every string among the kept
\* non-zero-score candidates, however often the string is in the list, and
\* its entries stand in the order of the earliest-ranked occurrences.
C38_OneEntryPerString ==
    pc_rank = "done" =>
        /\ Len(rank_value) = Cardinality({RankKept[k].item : k \in 1..Len(RankKept)})
        /\ \A a \in 1..Len(rank_value) :
               \E k \in 1..Len(RankKept) : RankKept[k].item = rank_value[a][1]
        /\ \A a, b \in 1..Len(rank_value) :
               a < b => /\ rank_value[a][1] # rank_value[b][1]
                        /\ EarliestRank(rank_value[a][1]) < EarliestRank(rank_value[b][1])

\* A list holds a string twice, another string is ranked between the two
\* occurrences, and all three are kept.
C38_Witness ==
    /\ pc_rank = "done"
    /\ Len(RankKept) = 3
    /\ RankKept[1].item = RankKept[3].item
    /\ RankKept[1].item # RankKept[2].item
    /\ Len(rank_value) = 2

(***************************************************************************)
(* The reference scorer's generator, checked under SpecGen.                *)
(***************************************************************************)
\* C34: every pair a generator of the scorer yields is the pair process_item
\* returns for that candidate and the query from an empty memo table with the
\* candidate's own max_score_per_char, whatever candidates came before it in
\* the partition and whatever queries the scorer scored before; two equal
\* candidates of a partition get equal pairs.
C34_ScoreOfCandidateAlone ==
    /\ \A j \in 1..Len(gen_vals) :
           gen_vals[j] = process_item(DefaultCtx(gen_items[j], gen_needle),
                                      gen_items[j], gen_needle)
    /\ \A i, j \in 1..Len(gen_vals) :
           gen_items[i] = gen_items[j] => gen_vals[i] = gen_vals[j]
    /\ (pc_gen = "run" /\ gen_done > 0)
           => gen_max = max_score_per_char(gen_items[gen_done], gen_needle)

\* The second generator of a scorer has yielded pairs with different non-zero
\* scores for two candidates, after a first generator scored another query.
C34_Witness ==
    /\ pc_gen = "done"
    /\ gen_calls = 2
    /\ Len(gen_vals) >= 2
    /\ RLess(Zero, gen_vals[1].score)
    /\ RLess(gen_vals[1].score, gen_vals[2].score)

(***************************************************************************)
(* The default scorer factory over several constructions, checked under    *)
(* SpecInit.                                                               *)
(***************************************************************************)
\* C32: in a process in which the accelerated implementation cannot be loaded,
\* the first failed attempt is the last attempt: the fallback is permanent,
\* and no later scorer construction through the default factory runs
\* CScorer.__init__ again.
C32_FallbackPermanent ==
    [][(~extension_loads /\ accel_attempts > 0) => accel_attempts' = accel_attempts]_vars

(***************************************************************************)
(* Threads and scorers, checked under Spec.                                *)
(***************************************************************************)
\* The workers running scorer(query) of line 51 for scorer i of Matcher m, the
\* scorer being one that scores inside the call.
ScoringWorkers(m, i) ==
    {w \in DOMAIN workers :
        /\ workers[w].pc = "busy"
        /\ workers[w].job.m = m
        /\ workers[w].job.i = i
        /\ matchers[m].scorers[i + 1].kind # "PyScorer"}

\* The calling threads at the loop of lines 125-136, where the generators of
\* the reference scorer are iterated and its scoring code runs.
Collecting == {t \in Callers : pc[t] = "collect"}

\* C31: no two threads run the scoring code of one scorer at the same time:
\* no two workers are inside scorer(query) of the same scorer, and at most
\* one calling thread, the holder of the lock, iterates generators.
C31_OneThreadPerScorer ==
    /\ \A m \in 1..Len(matchers) : \A i \in 0..Len(matchers[m].scorers) - 1 :
           Cardinality(ScoringWorkers(m, i)) <= 1
    /\ Cardinality(Collecting) <= 1
    /\ \A t \in Collecting : wlock = t

\* Generators, and with them the scoring code of the reference scorer, are
\* iterated by the holder of the lock only.
GeneratorsUnderLock ==
    /\ Cardinality(Collecting) <= 1
    /\ \A t \in Collecting : wlock = t

(***************************************************************************)
(* The sort-key cache, checked under Spec.                                 *)
(***************************************************************************)
\* C33: the sort keys of a Matcher are assigned at most once, by the first
\* query call on it that gets past its puts, and a cache that is set is never
\* changed or dropped by a later step; the mapping a call returns is the
\* ranking of its candidates, table and limit, the same with or without the
\* cache.
C33_SortKeysOnceAndUnused ==
    /\ [][\A m \in 1..Len(matchers) :
            /\ matchers[m].sort_keys.set => matchers'[m].sort_keys = matchers[m].sort_keys
            /\ matchers'[m].sort_keys # matchers[m].sort_keys =>
                  /\ matchers'[m].sort_keys = ComputedSortKeys(matchers[m])
                  /\ \E t \in Callers : /\ pc[t] = "put"
                                         /\ pc'[t] = "collect"
                                         /\ call[t].m = m]_vars
    /\ [](ret.kind = "returned" =>
            /\ ret.value = Rank(RetMatcher.items, ret.table, ret.limit)
            /\ \A m \in 1..Len(matchers) :
                   (matchers[m].items = RetMatcher.items /\ ~matchers[m].sort_keys.set)
                       => ret.value = Rank(matchers[m].items, ret.table, ret.limit))

\* The second call on the only Matcher has returned; the first call computed
\* the cache.
C33_Witness ==
    /\ Len(matchers) = 1
    /\ ret.kind = "returned"
    /\ ret.id = 2
    /\ RetMatcher.sort_keys.set
    /\ ret.value # <<>>

(***************************************************************************)
(* The positions of the returned entries.                                  *)
(***************************************************************************)
\* positions is an alignment of query q in candidate item: every slot is
\* assigned, the offsets are strictly increasing and inside the candidate,
\* and the candidate's character at slot i equals query character i at
\* primary strength.
IsAlignment(positions, item, q) ==
    /\ Len(positions) = Len(q)
    /\ \A i \in 1..Len(positions) :
           /\ positions[i] # -1
           /\ positions[i] \in 0..Len(item) - 1
           /\ PrimaryKey(item[positions[i] + 1]) = PrimaryKey(q[i])
    /\ \A i \in 1..Len(positions) - 1 : positions[i] < positions[i + 1]

\* C35: the positions of every entry of a returned mapping are an alignment
\* of the call's query in the entry's candidate.
C35_PositionsAreAlignment ==
    ret.kind = "returned" =>
        \A e \in 1..Len(ret.value) : IsAlignment(ret.value[e][2], ret.value[e][1], ret.query)

\* The positions process_item returns with a non-zero score are an alignment
\* of the needle in the haystack (SpecScore).
ScoredPositionsAreAlignment ==
    (pc_score = "done" /\ final_score # Zero)
        => IsAlignment(final_positions, haystack, needle)

====
